---- MODULE Spec2Model ----
(***************************************************************************)
(* A model of the testfill value-filling engine (package testfill).        *)
(*                                                                         *)
(* Text (struct tags, variant names, factory names, string values) is a    *)
(* sequence of one-character strings, so that Split, TrimSpace, HasPrefix  *)
(* and the strconv parsers are computed character by character.            *)
(*                                                                         *)
(* Go values are represented by kind:                                      *)
(*   int*, uint*   an integer            string   a sequence of characters *)
(*   bool          a BOOLEAN             struct   the sequence of its      *)
(*   ptr           0 (nil) or an index                field values         *)
(*                 into the heap                                           *)
(*   slice         [nil, elems]          map      [nil, m] with m a        *)
(*   interface     <<>> (nil) or                  function on the keys     *)
(*                 <<type, value>>       chan, func   0 or an identity     *)
(* The heap is the sequence of the cells pointers point to; reflect.New    *)
(* appends a cell.                                                         *)
(***************************************************************************)
EXTENDS Integers, Sequences, FiniteSets, TLC

VARIABLES
  factoryRegistry,  \* the process-wide registry: factory name -> callable
  op,               \* the call made last
  inputType, input, \* its input: the type T and the value
  variantArg,       \* its variant ("" for Fill)
  callerHeap,       \* the cells the input's pointers point to, before the call
  heap,             \* the cells after the call
  work,             \* resultValue, the working copy, when the call ended
  result, err,      \* what the call returned
  calls,            \* the factory callables it invoked, in order
  panicked,         \* whether it panicked instead of returning
  goroutine         \* the calls running at once, each with its call stack

vars == <<factoryRegistry, op, inputType, input, variantArg,
          callerHeap, heap, work, result, err, calls, panicked, goroutine>>

(***************************************************************************)
(* Text utilities: package strings                                         *)
(***************************************************************************)

\* strings.HasPrefix
HasPrefix(s, p) ==
  /\ Len(s) >= Len(p)
  /\ \A i \in 1..Len(p) : s[i] = p[i]

\* strings.TrimPrefix
TrimPrefix(s, p) ==
  IF HasPrefix(s, p) THEN SubSeq(s, Len(p) + 1, Len(s)) ELSE s

\* unicode.IsSpace, restricted to the characters of the model's alphabet
IsSpace(c) == c \in {" ", "\t"}

RECURSIVE TrimLeft(_)
TrimLeft(s) ==
  IF s # <<>> /\ IsSpace(Head(s)) THEN TrimLeft(Tail(s)) ELSE s

RECURSIVE TrimRight(_)
TrimRight(s) ==
  IF s # <<>> /\ IsSpace(s[Len(s)])
  THEN TrimRight(SubSeq(s, 1, Len(s) - 1))
  ELSE s

\* strings.TrimSpace
TrimSpace(s) == TrimRight(TrimLeft(s))

\* strings.Split(s, sep) for a one-character separator: the pieces between
\* the separators; a text without separator (the empty text too) is one piece.
RECURSIVE SplitFrom(_, _, _, _)
SplitFrom(s, sep, i, cur) ==
  IF i > Len(s) THEN <<cur>>
  ELSE IF s[i] = sep THEN <<cur>> \o SplitFrom(s, sep, i + 1, <<>>)
  ELSE SplitFrom(s, sep, i + 1, Append(cur, s[i]))

\* strings.Split giving no part for the empty text
SplitOmitEmpty(s, sep) ==
  IF Len(s) = 0 THEN <<>> ELSE SplitFrom(s, sep, 1, <<>>)

Split(s, sep) == SplitFrom(s, sep, 1, <<>>)

(***************************************************************************)
(* Number and boolean parsing: package strconv                             *)
(***************************************************************************)

DigitChars == {"0", "1", "2", "3", "4", "5", "6", "7", "8", "9"}

DigitVal(c) ==
  CASE c = "0" -> 0 [] c = "1" -> 1 [] c = "2" -> 2 [] c = "3" -> 3
    [] c = "4" -> 4 [] c = "5" -> 5 [] c = "6" -> 6 [] c = "7" -> 7
    [] c = "8" -> 8 [] c = "9" -> 9

RECURSIVE StripZeros(_)
StripZeros(d) ==
  IF Len(d) > 1 /\ Head(d) = "0" THEN StripZeros(Tail(d)) ELSE d

\* a <= b for two digit texts without leading zeros
RECURSIVE LexLE(_, _)
LexLE(a, b) ==
  IF a = <<>> THEN TRUE
  ELSE IF DigitVal(Head(a)) < DigitVal(Head(b)) THEN TRUE
  ELSE IF DigitVal(Head(a)) > DigitVal(Head(b)) THEN FALSE
  ELSE LexLE(Tail(a), Tail(b))

DigitsLE(a, b) ==
  LET x == StripZeros(a)
      y == StripZeros(b)
  IN  \/ Len(x) < Len(y)
      \/ Len(x) = Len(y) /\ LexLE(x, y)

RECURSIVE DigitsValue(_, _)
DigitsValue(d, acc) ==
  IF d = <<>> THEN acc ELSE DigitsValue(Tail(d), acc * 10 + DigitVal(Head(d)))

\* the largest magnitude of a signed bitSize-bit integer, as decimal digits
MaxSigned(bitSize) ==
  CASE bitSize = 8  -> <<"1","2","7">>
    [] bitSize = 16 -> <<"3","2","7","6","7">>
    [] bitSize = 32 -> <<"2","1","4","7","4","8","3","6","4","7">>
    [] bitSize = 64 -> <<"9","2","2","3","3","7","2","0","3","6","8","5","4",
                         "7","7","5","8","0","7">>

\* the magnitude of the smallest signed bitSize-bit integer
MinSignedMagnitude(bitSize) ==
  CASE bitSize = 8  -> <<"1","2","8">>
    [] bitSize = 16 -> <<"3","2","7","6","8">>
    [] bitSize = 32 -> <<"2","1","4","7","4","8","3","6","4","8">>
    [] bitSize = 64 -> <<"9","2","2","3","3","7","2","0","3","6","8","5","4",
                         "7","7","5","8","0","8">>

MaxUnsigned(bitSize) ==
  CASE bitSize = 8  -> <<"2","5","5">>
    [] bitSize = 16 -> <<"6","5","5","3","5">>
    [] bitSize = 32 -> <<"4","2","9","4","9","6","7","2","9","5">>
    [] bitSize = 64 -> <<"1","8","4","4","6","7","4","4","0","7","3","7","0",
                         "9","5","5","1","6","1","5">>

\* The result of a strconv parser: ok, the value, and the error kind
\* ("syntax" for strconv.ErrSyntax, "range" for strconv.ErrRange).
ParseOK(v) == [ok |-> TRUE, val |-> v, why |-> ""]
ParseErr(why) == [ok |-> FALSE, val |-> 0, why |-> why]

\* strconv.ParseUint(s, 10, bitSize)
ParseUint(s, bitSize) ==
  IF s = <<>> THEN ParseErr("syntax")
  ELSE IF \E i \in 1..Len(s) : s[i] \notin DigitChars THEN ParseErr("syntax")
  ELSE IF ~DigitsLE(s, MaxUnsigned(bitSize)) THEN ParseErr("range")
  ELSE ParseOK(DigitsValue(s, 0))

\* strconv.ParseInt(s, 10, bitSize)
ParseInt(s, bitSize) ==
  IF s = <<>> THEN ParseErr("syntax")
  ELSE
    LET neg == Head(s) = "-"
        d   == IF Head(s) \in {"+", "-"} THEN Tail(s) ELSE s
    IN  IF d = <<>> THEN ParseErr("syntax")
        ELSE IF \E i \in 1..Len(d) : d[i] \notin DigitChars
          THEN ParseErr("syntax")
        ELSE IF ~neg /\ ~DigitsLE(d, MaxSigned(bitSize))
          THEN ParseErr("range")
        ELSE IF neg /\ ~DigitsLE(d, MinSignedMagnitude(bitSize))
          THEN ParseErr("range")
        ELSE ParseOK(IF neg THEN 0 - DigitsValue(d, 0) ELSE DigitsValue(d, 0))

\* strconv.Atoi
Atoi(s) == ParseInt(s, 64)

\* strconv.ParseBool
ParseBool(s) ==
  IF s \in { <<"1">>, <<"t">>, <<"T">>, <<"t","r","u","e">>,
             <<"T","R","U","E">>, <<"T","r","u","e">> }
    THEN [ok |-> TRUE, val |-> TRUE, why |-> ""]
  ELSE IF s \in { <<"0">>, <<"f">>, <<"F">>, <<"f","a","l","s","e">>,
                  <<"F","A","L","S","E">>, <<"F","a","l","s","e">> }
    THEN [ok |-> TRUE, val |-> FALSE, why |-> ""]
  ELSE [ok |-> FALSE, val |-> FALSE, why |-> "syntax"]

(***************************************************************************)
(* Tag constants and error formats                                         *)
(***************************************************************************)

TagFill      == <<"f","i","l","l">>
TagFactory   == <<"f","a","c","t","o","r","y",":">>
TagUnmarshal == <<"u","n","m","a","r","s","h","a","l",":">>
TagVariant   == <<"v","a","r","i","a","n","t","s",":">>
\* the literal "fill:" of setStructSliceValue
TagFillCount == <<"f","i","l","l",":">>

\* An error is the sequence of the frames of its message, outermost first;
\* each frame is one format of the source with its arguments: s1, s2 are
\* names (field, kind, type), txt is text taken from a tag or a panic value,
\* n1, n2 are numbers.  The nil error is the empty sequence.
Frame(fmt, s1, s2, txt, n1, n2) ==
  [fmt |-> fmt, s1 |-> s1, s2 |-> s2, txt |-> txt, n1 |-> n1, n2 |-> n2]

NoError == <<>>

ErrNotStruct(t)            == <<Frame("ErrNotStruct", t, "", <<>>, 0, 0)>>
ErrNestedStruct(f, e)      == <<Frame("ErrNestedStruct", f, "", <<>>, 0, 0)>> \o e
ErrNestedStructPtr(f, e)   == <<Frame("ErrNestedStructPtr", f, "", <<>>, 0, 0)>> \o e
ErrSetField(f, e)          == <<Frame("ErrSetField", f, "", <<>>, 0, 0)>> \o e
ErrUnsupportedStruct(t)    == <<Frame("ErrUnsupportedStruct", t, "", <<>>, 0, 0)>>
ErrUnsupportedField(k)     == <<Frame("ErrUnsupportedField", k, "", <<>>, 0, 0)>>
ErrUnsupportedSliceType(k) == <<Frame("ErrUnsupportedSliceType", k, "", <<>>, 0, 0)>>
ErrUnsupportedMapType(k, v) == <<Frame("ErrUnsupportedMapType", k, v, <<>>, 0, 0)>>
ErrInvalidMapFormat(pair)  == <<Frame("ErrInvalidMapFormat", "", "", pair, 0, 0)>>
ErrFactoryNotFound(n)      == <<Frame("ErrFactoryNotFound", "", "", n, 0, 0)>>
ErrFactoryArgCount(n, want, got) ==
  <<Frame("ErrFactoryArgCount", "", "", n, want, got)>>
ErrFactoryPanic(v)         == <<Frame("ErrFactoryPanic", "", "", v, 0, 0)>>
ErrFactoryReturnCount(n)   == <<Frame("ErrFactoryReturnCount", "", "", n, 0, 0)>>
ErrFactoryReturnType(n, got, want) ==
  <<Frame("ErrFactoryReturnType", got, want, n, 0, 0)>>
ErrFactoryArgConvert(n, i, e) ==
  <<Frame("ErrFactoryArgConvert", "", "", n, i, 0)>> \o e
\* cannot convert %q to %s: %w, the wrapped error being strconv's
ErrStringConvert(arg, k, why) ==
  <<Frame("ErrStringConvert", k, "", arg, 0, 0),
    Frame("strconv", why, "", arg, 0, 0)>>
ErrUnsupportedParam(k)     == <<Frame("ErrUnsupportedParam", k, "", <<>>, 0, 0)>>
ErrJSONUnmarshal(why)      == <<Frame("ErrJSONUnmarshal", why, "", <<>>, 0, 0)>>
ErrSliceCount(tag)         == <<Frame("invalid slice count format", "", "", tag, 0, 0)>>
ErrSliceElem(i, e)         == <<Frame("failed to fill slice element", "", "", <<>>, i, 0)>> \o e
ErrSliceElemVariant(i, v, e) ==
  <<Frame("failed to fill slice element with variant", "", "", v, i, 0)>> \o e
ErrMapValue(k, e)          == <<Frame("failed to fill map value for key", "", "", k, 0, 0)>> \o e
\* the variant is the second text of the message: it is a frame of its own
ErrMapValueVariant(k, v, e) ==
  <<Frame("failed to fill map value for key with variant", "", "", k, 0, 0),
    Frame("with variant", "", "", v, 0, 0)>> \o e
ErrKeyVariantFormat(item)  == <<Frame("invalid key=variant format", "", "", item, 0, 0)>>

(***************************************************************************)
(* The types the engine is run on.  reflect.Type is a name; TypeInfo gives *)
(* what reflection reads from it: the kind, the element and key types and, *)
(* for a struct, the fields in declaration order with their tags.          *)
(***************************************************************************)

\* the JSON text null
JSONNull == <<"n","u","l","l">>

\* the variant names used by the struct tags and by the callers
VariantA == <<"a">>
VariantZ == <<"z">>

NoVariantTags == <<>>

\* reflect.StructField: Name, whether it is exported, Type, and Tag as the
\* default testfill tag plus the testfill_<variant> tags
Field(name, exported, type, tag, vtags) ==
  [name |-> name, exported |-> exported, type |-> type, tag |-> tag,
   vtags |-> vtags]

Scalar(k) == [kind |-> k, elem |-> "", key |-> "", fields |-> <<>>]
Struct(fields) == [kind |-> "struct", elem |-> "", key |-> "", fields |-> fields]
PtrTo(t) == [kind |-> "ptr", elem |-> t, key |-> "", fields |-> <<>>]
SliceOf(t) == [kind |-> "slice", elem |-> t, key |-> "", fields |-> <<>>]
MapOf(k, t) == [kind |-> "map", elem |-> t, key |-> k, fields |-> <<>>]

BarFields ==
  << Field("Integer", TRUE, "int", <<"4","2">>, NoVariantTags),
     Field("String", TRUE, "string", <<"o">>, VariantA :> <<"p">>) >>

BazFields ==
  << Field("Value", TRUE, "int", <<"1","0","0">>, VariantA :> <<"2","0","0">>),
     Field("NestedBar", TRUE, "Bar", TagFill, NoVariantTags),
     Field("PtrBar", TRUE, "*Bar", TagFill, NoVariantTags),
     Field("NonFilledBar", TRUE, "Bar", <<>>, NoVariantTags) >>

CustomVOFields ==
  << Field("privateField", FALSE, "string", <<>>, NoVariantTags) >>

FooFields ==
  << Field("Integer", TRUE, "int", <<"7">>, VariantA :> <<"8">>),
     Field("NestedStructWithFillTag", TRUE, "Bar", TagFill, NoVariantTags),
     Field("NestedPointerWithFillTag", TRUE, "*Bar", TagFill, NoVariantTags),
     Field("NestedPointerWithoutTag", TRUE, "*Bar", <<>>, NoVariantTags),
     Field("hidden", FALSE, "int", <<"5">>, NoVariantTags) >>

DeepFields ==
  << Field("Name", TRUE, "string", <<"D">>, VariantA :> <<>>),
     Field("DeeplyNestedWithFillTag", TRUE, "Baz", TagFill, NoVariantTags),
     Field("DeeplyNestedPtr", TRUE, "*Baz", TagFill, NoVariantTags) >>

CollFields ==
  << Field("ArrayOfString", TRUE, "[]string", <<"x",","," ","y">>, NoVariantTags),
     Field("Users", TRUE, "[]Bar", TagVariant \o <<"d",","," ","a">>, NoVariantTags),
     Field("Items", TRUE, "[]Bar", TagFillCount \o <<"2">>, NoVariantTags),
     Field("MapOfString", TRUE, "map[string]string",
           <<"k",":","v",",","j",":","w">>, NoVariantTags),
     Field("UserMap", TRUE, "map[string]Bar",
           <<"k",":","f","i","l","l",",","j",":","a">>, NoVariantTags) >>

FactFields ==
  << Field("Before", TRUE, "int", <<"1">>, NoVariantTags),
     Field("Value", TRUE, "CustomVO", TagFactory \o <<"U">>, NoVariantTags),
     Field("WithArgs", TRUE, "CustomVO", TagFactory \o <<"V",":","x",":","y">>,
           VariantA :> (TagFactory \o <<"V",":","x",":","7">>)),
     Field("After", TRUE, "int", <<"3">>, NoVariantTags) >>

WrapFields ==
  << Field("Inner", TRUE, "Fact", TagFill, NoVariantTags),
     Field("Facts", TRUE, "[]Fact", TagFillCount \o <<"1">>, NoVariantTags),
     Field("FactMap", TRUE, "map[string]Fact", <<"k",":","f","i","l","l">>,
           NoVariantTags) >>

\* The structs the tests declare locally, by name, with the directives cut to
\* a few characters.  Slices:
SliceTests ==
  "ArrayOfInt" :>
    << Field("Value", TRUE, "[]int", <<"1",","," ","2">>, NoVariantTags) >>
  @@ "InvalidIntSlice" :>
    << Field("Value", TRUE, "[]int", <<"1",",","x",",","3">>, NoVariantTags) >>
  @@ "InvalidStructSlice" :>
    << Field("Value", TRUE, "[]Bar", TagFillCount \o <<"x">>, NoVariantTags) >>
  @@ "EmptyStructSlice" :>
    << Field("Value", TRUE, "[]Bar", TagFillCount \o <<"0">>, NoVariantTags) >>
  @@ "NegativeStructSlice" :>
    << Field("Value", TRUE, "[]Bar", TagFillCount \o <<"-","1">>, NoVariantTags) >>
  @@ "NoCountStructSlice" :>
    << Field("Value", TRUE, "[]Bar", TagFillCount, NoVariantTags) >>

\* maps
MapTests ==
  "InvalidMap" :>
    << Field("Value", TRUE, "map[string]string",
             <<"k","v",",","j",":","w">>, NoVariantTags) >>
  @@ "TooManyColons" :>
    << Field("Value", TRUE, "map[string]string",
             <<"k",":","v",":","e",",","j",":","w">>, NoVariantTags) >>
  @@ "LateInvalidMap" :>
    << Field("Value", TRUE, "map[string]string",
             <<"k",":","v",","," ","j">>, NoVariantTags) >>
  @@ "IntStringMapTest" :>
    << Field("Value", TRUE, "map[int]string",
             <<"1",":","v",","," ","2",":","w">>, NoVariantTags) >>
  @@ "StringIntMapTest" :>
    << Field("Value", TRUE, "map[string]int",
             <<"k",":","1",",","j",":","3",",","k",":","2">>, NoVariantTags) >>
  @@ "InvalidKeyMap" :>
    << Field("Value", TRUE, "map[int]string",
             <<"x",":","v",",","2",":","w">>, NoVariantTags) >>
  @@ "InvalidValueMap" :>
    << Field("Value", TRUE, "map[string]int",
             <<"k",":","x",",","j">>, NoVariantTags) >>
  @@ "UnsupportedStructMap" :>
    << Field("Value", TRUE, "map[int]Bar",
             <<"1",":","f","i","l","l">>, NoVariantTags) >>
  @@ "InvalidFormatStructMap" :>
    << Field("Value", TRUE, "map[string]Bar",
             <<"k","f",",","j",":","f","i","l","l">>, NoVariantTags) >>
  @@ "SameKeyStructMap" :>
    << Field("Value", TRUE, "map[string]Bar",
             <<"k",":","f","i","l","l",","," ","k",":","a">>, NoVariantTags) >>

\* named variants in slices and maps
VariantTests ==
  "Team" :>
    << Field("Users", TRUE, "[]Bar",
             TagVariant \o <<" ","a"," ",",","z",","," ","a">>, NoVariantTags) >>
  @@ "UserDirectory" :>
    << Field("Users", TRUE, "map[string]Bar",
             TagVariant \o <<" ","k"," ","="," ","a"," ",",","j","=","d",
                             ",","k","=","z",",","q","=","a">>,
             NoVariantTags) >>
  @@ "InvalidDirectory" :>
    << Field("Users", TRUE, "map[string]Bar",
             TagVariant \o <<"k","=","a",",","j",",","q","=","a">>,
             NoVariantTags) >>
  @@ "IntKeyDirectory" :>
    << Field("Users", TRUE, "map[int]Bar",
             TagVariant \o <<"1","=","a">>, NoVariantTags) >>
  @@ "EmptyVariants" :>
    << Field("Users", TRUE, "[]Bar", TagVariant, NoVariantTags) >>
  @@ "VariantOnly" :>
    << Field("Value", TRUE, "string", <<>>, VariantA :> <<"q">>),
       Field("Other", TRUE, "Bar", <<>>, VariantA :> TagFill) >>

\* unexported fields, embedded structs and the kinds no setter handles
EdgeTests ==
  "MixedFieldStruct" :>
    << Field("Field1", TRUE, "string", <<"v">>, NoVariantTags),
       Field("field2", FALSE, "int", <<"4">>, NoVariantTags),
       Field("Field3", TRUE, "bool", <<"t","r","u","e">>, NoVariantTags),
       Field("field4", FALSE, "string", <<>>, NoVariantTags) >>
  @@ "Embedded" :>
    << Field("EmbeddedField", TRUE, "string", <<"e">>, NoVariantTags) >>
  @@ "ContainerStruct" :>
    << Field("Embedded", TRUE, "Embedded", <<>>, NoVariantTags),
       Field("OtherField", TRUE, "string", <<"o">>, NoVariantTags) >>
  @@ "InterfaceStruct" :>
    << Field("Data", TRUE, "interface{}", TagFill, NoVariantTags),
       Field("Events", TRUE, "chan int", TagFill, NoVariantTags),
       Field("Hook", TRUE, "func()", TagFill, NoVariantTags),
       Field("Raw", TRUE, "interface{}", <<>>, NoVariantTags),
       Field("Done", TRUE, "chan int", <<>>, NoVariantTags),
       Field("Then", TRUE, "func()", <<>>, NoVariantTags) >>
  @@ "InterfaceLiteral" :>
    << Field("Data", TRUE, "interface{}", <<"x">>, NoVariantTags) >>
  @@ "InterfaceList" :>
    << Field("Data", TRUE, "interface{}", <<"1",",","2">>, NoVariantTags) >>
  @@ "InterfacePairs" :>
    << Field("Data", TRUE, "interface{}", <<"k",":","v">>, NoVariantTags) >>
  @@ "InterfaceFactory" :>
    << Field("Data", TRUE, "interface{}", TagFactory \o <<"U">>, NoVariantTags) >>
  @@ "ChanLiteral" :>
    << Field("Events", TRUE, "chan int", <<"x">>, NoVariantTags) >>
  @@ "ChanFactory" :>
    << Field("Events", TRUE, "chan int", TagFactory \o <<"U">>, NoVariantTags) >>
  @@ "ChanJSON" :>
    << Field("Events", TRUE, "chan int", TagUnmarshal \o <<"1">>, NoVariantTags) >>
  @@ "FuncLiteral" :>
    << Field("Hook", TRUE, "func()", <<"x">>, NoVariantTags) >>
  @@ "FuncFactory" :>
    << Field("Hook", TRUE, "func()", TagFactory \o <<"U">>, NoVariantTags) >>
  @@ "FuncJSON" :>
    << Field("Hook", TRUE, "func()", TagUnmarshal \o <<"1">>, NoVariantTags) >>
  @@ "ContainerWithError" :>
    << Field("NestedPtr", TRUE, "*InvalidJSON", TagFill, NoVariantTags),
       Field("After", TRUE, "int", <<"3">>, NoVariantTags) >>
  \* a list node: a fill-tagged pointer field to its own type
  @@ "Node" :>
    << Field("Next", TRUE, "*Node", TagFill, NoVariantTags),
       Field("Name", TRUE, "string", <<"n">>, NoVariantTags) >>

\* unmarshal: directives
JSONTests ==
  "TestJSON" :>
    << Field("String", TRUE, "string", TagUnmarshal \o <<"\"","h","\"">>,
             NoVariantTags),
       Field("Int", TRUE, "int", TagUnmarshal \o <<"4","2">>, NoVariantTags),
       Field("Bool", TRUE, "bool", TagUnmarshal \o <<"t","r","u","e">>,
             NoVariantTags),
       Field("StringPtr", TRUE, "*string", TagUnmarshal \o <<"\"","h","\"">>,
             NoVariantTags),
       Field("NullPtr", TRUE, "*string", TagUnmarshal \o JSONNull,
             NoVariantTags),
       Field("Interface", TRUE, "interface{}", TagUnmarshal \o <<"7">>,
             NoVariantTags) >>
  @@ "SpacedNull" :>
    << Field("Value", TRUE, "*string", TagUnmarshal \o <<" ">> \o JSONNull,
             NoVariantTags) >>
  @@ "InvalidJSON" :>
    << Field("Before", TRUE, "int", <<"1">>, NoVariantTags),
       Field("Value", TRUE, "int", TagUnmarshal \o <<"{","x","}">>,
             NoVariantTags) >>
  @@ "InvalidPtrJSON" :>
    << Field("Value", TRUE, "*string", TagUnmarshal \o <<"7">>,
             NoVariantTags) >>
  @@ "InvalidNestedJSON" :>
    << Field("Inner", TRUE, "InvalidJSON", TagFill, NoVariantTags),
       Field("After", TRUE, "int", <<"3">>, NoVariantTags) >>

IntKinds  == {"int", "int8", "int16", "int32", "int64"}
UintKinds == {"uint", "uint8", "uint16", "uint32", "uint64"}

\* integers of every width: the largest and the smallest value of the kind
\* (the largest the model's integers hold, for the kinds wider than they
\* are), and struct by struct the literals next to the range on either side
IntegerTests ==
  "Int8Test" :>
    << Field("Max", TRUE, "int8", <<"1","2","7">>, NoVariantTags),
       Field("Min", TRUE, "int8", <<"-","1","2","8">>, NoVariantTags) >>
  @@ "Int8Over" :>
    << Field("Value", TRUE, "int8", <<"1","2","8">>, NoVariantTags) >>
  @@ "Int8Under" :>
    << Field("Value", TRUE, "int8", <<"-","1","2","9">>, NoVariantTags) >>
  @@ "Int16Test" :>
    << Field("Max", TRUE, "int16", <<"3","2","7","6","7">>, NoVariantTags),
       Field("Min", TRUE, "int16", <<"-","3","2","7","6","8">>, NoVariantTags) >>
  @@ "Int16Over" :>
    << Field("Value", TRUE, "int16", <<"3","2","7","6","8">>, NoVariantTags) >>
  @@ "Int16Under" :>
    << Field("Value", TRUE, "int16", <<"-","3","2","7","6","9">>, NoVariantTags) >>
  @@ "Int32Test" :>
    << Field("Max", TRUE, "int32", <<"2","1","4","7","4","8","3","6","4","7">>,
             NoVariantTags),
       Field("Min", TRUE, "int32",
             <<"-","2","1","4","7","4","8","3","6","4","7">>, NoVariantTags) >>
  @@ "Int32Over" :>
    << Field("Value", TRUE, "int32", <<"2","1","4","7","4","8","3","6","4","8">>,
             NoVariantTags) >>
  @@ "Int32Under" :>
    << Field("Value", TRUE, "int32",
             <<"-","2","1","4","7","4","8","3","6","4","9">>, NoVariantTags) >>
  @@ "Int64Test" :>
    << Field("Max", TRUE, "int64", <<"2","1","4","7","4","8","3","6","4","7">>,
             NoVariantTags),
       Field("Min", TRUE, "int64",
             <<"-","2","1","4","7","4","8","3","6","4","7">>, NoVariantTags) >>
  @@ "Int64Over" :>
    << Field("Value", TRUE, "int64",
             <<"9","2","2","3","3","7","2","0","3","6","8","5","4","7","7","5",
               "8","0","8">>, NoVariantTags) >>
  @@ "Int64Under" :>
    << Field("Value", TRUE, "int64",
             <<"-","9","2","2","3","3","7","2","0","3","6","8","5","4","7","7",
               "5","8","0","9">>, NoVariantTags) >>
  @@ "Uint8Test" :>
    << Field("Max", TRUE, "uint8", <<"2","5","5">>, NoVariantTags) >>
  @@ "Uint8Over" :>
    << Field("Value", TRUE, "uint8", <<"2","5","6">>, NoVariantTags) >>
  @@ "Uint8Under" :>
    << Field("Value", TRUE, "uint8", <<"-","1">>, NoVariantTags) >>
  @@ "Uint16Test" :>
    << Field("Max", TRUE, "uint16", <<"6","5","5","3","5">>, NoVariantTags) >>
  @@ "Uint16Over" :>
    << Field("Value", TRUE, "uint16", <<"6","5","5","3","6">>, NoVariantTags) >>
  @@ "Uint16Under" :>
    << Field("Value", TRUE, "uint16", <<"-","1">>, NoVariantTags) >>
  @@ "Uint32Test" :>
    << Field("Max", TRUE, "uint32", <<"2","1","4","7","4","8","3","6","4","7">>,
             NoVariantTags) >>
  @@ "Uint32Over" :>
    << Field("Value", TRUE, "uint32", <<"4","2","9","4","9","6","7","2","9","6">>,
             NoVariantTags) >>
  @@ "Uint32Under" :>
    << Field("Value", TRUE, "uint32", <<"-","1">>, NoVariantTags) >>
  @@ "Uint64Test" :>
    << Field("Max", TRUE, "uint64", <<"2","1","4","7","4","8","3","6","4","7">>,
             NoVariantTags) >>
  @@ "Uint64Over" :>
    << Field("Value", TRUE, "uint64",
             <<"1","8","4","4","6","7","4","4","0","7","3","7","0","9","5","5",
               "1","6","1","6">>, NoVariantTags) >>
  @@ "Uint64Under" :>
    << Field("Value", TRUE, "uint64", <<"-","1">>, NoVariantTags) >>

TestStructs ==
  SliceTests @@ MapTests @@ VariantTests @@ EdgeTests @@ JSONTests
  @@ IntegerTests

TypeInfo(t) ==
  CASE t = "interface{}" -> Scalar("interface")
    [] t = "chan int" -> Scalar("chan")
    [] t = "func()"   -> Scalar("func")
    [] t = "*string"  -> PtrTo("string")
    [] t = "*InvalidJSON" -> PtrTo("InvalidJSON")
    [] t = "*Node"   -> PtrTo("Node")
    [] t = "map[int]string" -> MapOf("int", "string")
    [] t = "map[string]int" -> MapOf("string", "int")
    [] t = "map[int]Bar"    -> MapOf("int", "Bar")
    [] t = "int"     -> Scalar("int")
    [] t \in IntKinds \cup UintKinds -> Scalar(t)
    [] t = "string"  -> Scalar("string")
    [] t = "bool"    -> Scalar("bool")
    [] t = "Bar"     -> Struct(BarFields)
    [] t = "Baz"     -> Struct(BazFields)
    [] t = "CustomVO" -> Struct(CustomVOFields)
    [] t = "Foo"     -> Struct(FooFields)
    [] t = "Deep"    -> Struct(DeepFields)
    [] t = "Coll"    -> Struct(CollFields)
    [] t = "Fact"    -> Struct(FactFields)
    [] t = "Wrap"    -> Struct(WrapFields)
    [] t = "*Bar"    -> PtrTo("Bar")
    [] t = "*Baz"    -> PtrTo("Baz")
    [] t = "*Fact"   -> PtrTo("Fact")
    [] t = "[]string" -> SliceOf("string")
    [] t = "[]int"   -> SliceOf("int")
    [] t = "[]Bar"   -> SliceOf("Bar")
    [] t = "[]Fact"  -> SliceOf("Fact")
    [] t = "map[string]string" -> MapOf("string", "string")
    [] t = "map[string]Bar"    -> MapOf("string", "Bar")
    [] t = "map[string]Fact"   -> MapOf("string", "Fact")
    \* a struct declared by a test
    [] OTHER -> Struct(TestStructs[t])

Kind(t) == TypeInfo(t).kind
Fields(t) == TypeInfo(t).fields

NilSlice == [nil |-> TRUE, elems |-> <<>>]
MakeSlice(elems) == [nil |-> FALSE, elems |-> elems]
NilMap == [nil |-> TRUE, m |-> <<>>]
MakeMap == [nil |-> FALSE, m |-> <<>>]
\* SetMapIndex keeping the value a key already has
SetMapIndexKeepFirst(mv, k, v) ==
  [nil |-> FALSE,
   m |-> [x \in (DOMAIN mv.m) \cup {k} |->
            IF x \in DOMAIN mv.m THEN mv.m[x] ELSE v]]

\* reflect.Value.SetMapIndex
SetMapIndex(mv, k, v) ==
  [nil |-> FALSE,
   m |-> [x \in (DOMAIN mv.m) \cup {k} |-> IF x = k THEN v ELSE mv.m[x]]]

\* an interface value: nil, or the dynamic type with the value
NilInterface == <<>>
MakeInterface(t, v) == <<t, v>>

\* reflect.Zero / reflect.New(t).Elem(); a channel or a function is nil (0)
\* or the identity of the one the caller made
RECURSIVE Zero(_)
Zero(t) ==
  LET ti == TypeInfo(t) IN
  CASE ti.kind \in IntKinds \cup UintKinds -> 0
    [] ti.kind = "string" -> <<>>
    [] ti.kind = "bool"   -> FALSE
    [] ti.kind \in {"ptr", "chan", "func"} -> 0
    [] ti.kind = "interface" -> NilInterface
    [] ti.kind = "slice"  -> NilSlice
    [] ti.kind = "map"    -> NilMap
    [] ti.kind = "struct" -> [i \in 1..Len(ti.fields) |-> Zero(ti.fields[i].type)]

\* reflect.Value.IsZero
RECURSIVE IsZero(_, _)
IsZero(v, t) ==
  LET ti == TypeInfo(t) IN
  CASE ti.kind \in IntKinds \cup UintKinds -> v = 0
    [] ti.kind = "string" -> Len(v) = 0
    [] ti.kind = "bool"   -> ~v
    [] ti.kind \in {"ptr", "chan", "func"} -> v = 0
    [] ti.kind = "interface" -> Len(v) = 0
    [] ti.kind = "slice"  -> v.nil
    [] ti.kind = "map"    -> v.nil
    [] ti.kind = "struct" ->
         \A i \in 1..Len(ti.fields) : IsZero(v[i], ti.fields[i].type)

\* isZeroValue taking every field for a zero one
isZeroValueAlways(v, t) == TRUE

\* isZeroValue taking an empty slice or map for a zero one
isZeroValueEmpty(v, t) ==
  IF Kind(t) = "slice" THEN Len(v.elems) = 0
  ELSE IF Kind(t) = "map" THEN DOMAIN v.m = {}
  ELSE IsZero(v, t)

\* isZeroValue taking every slice for a zero one
isZeroValueAnySlice(v, t) == Kind(t) = "slice" \/ IsZero(v, t)

isZeroValue(v, t) == IsZero(v, t)

(***************************************************************************)
(* Type conversion utilities                                               *)
(***************************************************************************)

\* the bitSize each entry of typeConverters passes to strconv
BitSize(k) ==
  CASE k \in {"int", "int64", "uint", "uint64"} -> 64
    [] k \in {"int8", "uint8"}   -> 8
    [] k \in {"int16", "uint16"} -> 16
    [] k \in {"int32", "uint32"} -> 32

\* typeConverters parsing the unsigned kinds as signed
typeConvertersSigned(k, s) ==
  CASE k = "string"    -> [ok |-> TRUE, val |-> s, why |-> ""]
    [] k = "bool"      -> ParseBool(s)
    [] k \in IntKinds \cup UintKinds -> ParseInt(s, BitSize(k))

\* typeConverters[kind](s)
typeConverters(k, s) ==
  CASE k = "string"    -> [ok |-> TRUE, val |-> s, why |-> ""]
    [] k = "bool"      -> ParseBool(s)
    [] k \in IntKinds  -> ParseInt(s, BitSize(k))
    [] k \in UintKinds -> ParseUint(s, BitSize(k))

\* reflect.Value.Convert of the parsed value to the target kind: an integer is
\* cut to the width of the kind.  The integers of the model fit 32 bits, so
\* that only the 8- and 16-bit kinds cut anything.
Convert(v, k) ==
  IF k \in {"int8", "int16"}
  THEN LET m == 2 ^ BitSize(k) IN ((v + m \div 2) % m) - m \div 2
  ELSE IF k \in {"uint8", "uint16"} THEN v % (2 ^ BitSize(k))
  ELSE v

ConvOK(v)  == [ok |-> TRUE, val |-> v, err |-> NoError]
ConvErr(e) == [ok |-> FALSE, val |-> 0, err |-> e]

convertStringToType(arg, targetType) ==
  LET k == Kind(targetType)
      \* after the converter returned p
      converted(p) ==
        IF ~p.ok THEN ConvErr(ErrStringConvert(arg, k, p.why))
        ELSE ConvOK(Convert(p.val, k))
  IN
  IF k \notin {"string", "bool"} \cup IntKinds \cup UintKinds
  THEN ConvErr(ErrUnsupportedParam(k))
  ELSE converted(typeConverters(k, arg))

(***************************************************************************)
(* The outcome of a step of the engine: the field's (or struct's) value    *)
(* after it, the heap, the factory calls made so far, the error, and       *)
(* whether the step panicked (then err holds the panic).                   *)
(***************************************************************************)

OK(v, h, c)      == [val |-> v, heap |-> h, calls |-> c, err |-> NoError, panic |-> FALSE]
Fail(v, h, c, e) == [val |-> v, heap |-> h, calls |-> c, err |-> e, panic |-> FALSE]
Panic(v, h, c, e) == [val |-> v, heap |-> h, calls |-> c, err |-> e, panic |-> TRUE]
Failed(r) == r.panic \/ Len(r.err) > 0

(***************************************************************************)
(* Factory registry and the registered callables                           *)
(***************************************************************************)

FactoryNameU == <<"U">>
FactoryNameV == <<"V">>
FactoryNames == {FactoryNameU, FactoryNameV}

\* the callables a caller registers; reflect reads their parameter types
FuncIds == {"NewCustomVO", "PanicFactory", "WrongReturnType",
            "MultipleReturns", "TwoInts", "StrInt"}

FuncParams(fn) ==
  CASE fn = "NewCustomVO"     -> <<>>
    [] fn = "PanicFactory"    -> <<>>
    [] fn = "WrongReturnType" -> <<>>
    [] fn = "MultipleReturns" -> <<>>
    [] fn = "TwoInts"         -> <<"int", "int">>
    [] fn = "StrInt"          -> <<"string", "int">>

PanicText == <<"b","o","o","m">>

\* funcValue.Call(callArgs): the callable panics, or returns its results,
\* each with its static type
FuncCall(fn, args) ==
  CASE fn = "NewCustomVO" ->
         [panic |-> FALSE, pval |-> <<>>,
          results |-> << [type |-> "CustomVO", val |-> << <<"f">> >>] >>]
    [] fn = "PanicFactory" ->
         [panic |-> TRUE, pval |-> PanicText, results |-> <<>>]
    [] fn = "WrongReturnType" ->
         [panic |-> FALSE, pval |-> <<>>,
          results |-> << [type |-> "string", val |-> <<"n">>] >>]
    [] fn = "MultipleReturns" ->
         [panic |-> FALSE, pval |-> <<>>,
          results |-> << [type |-> "CustomVO", val |-> << <<>> >>],
                         [type |-> "error", val |-> 0] >>]
    [] fn = "TwoInts" ->
         [panic |-> FALSE, pval |-> <<>>,
          results |-> << [type |-> "CustomVO", val |-> << <<"i">> >>] >>]
    [] fn = "StrInt" ->
         [panic |-> FALSE, pval |-> <<>>,
          results |-> << [type |-> "CustomVO", val |-> << args[1] >>] >>]

\* the absent entry: getFactoryFunction returns a nil interface
NilFunc == "nil"

getFactoryFunction(name) ==
  IF name \in DOMAIN factoryRegistry THEN factoryRegistry[name] ELSE NilFunc

\* reflect.Type.AssignableTo for the types of the model: identical types, and
\* every type implements the empty interface
AssignableTo(from, to) == from = to \/ to = "interface{}"

parseFactoryTag(factoryTag) ==
  LET parts == Split(factoryTag, ":") IN
  [name |-> Head(parts), args |-> Tail(parts)]

getAndValidateFactoryFunction(factoryName) ==
  LET fn == getFactoryFunction(factoryName) IN
  IF fn = NilFunc
  THEN [fn |-> NilFunc, err |-> ErrFactoryNotFound(factoryName)]
  ELSE [fn |-> fn, err |-> NoError]

RECURSIVE FirstBadArg(_, _, _)
FirstBadArg(args, params, i) ==
  IF i > Len(args) THEN 0
  ELSE IF ~convertStringToType(args[i], params[i]).ok THEN i
  ELSE FirstBadArg(args, params, i + 1)

\* the last argument that does not convert, 0 when all convert
RECURSIVE LastBadArg(_, _, _)
LastBadArg(args, params, i) ==
  IF i = 0 THEN 0
  ELSE IF ~convertStringToType(args[i], params[i]).ok THEN i
  ELSE LastBadArg(args, params, i - 1)

\* prepareFactoryArgs converting every argument before it looks at the errors,
\* the error of the last one overwriting the earlier ones
prepareFactoryArgsLastError(args, fn, factoryName) ==
  LET params == FuncParams(fn) IN
  IF Len(args) # Len(params)
  THEN [callArgs |-> <<>>,
        err |-> ErrFactoryArgCount(factoryName, Len(params), Len(args))]
  ELSE LET bad == LastBadArg(args, params, Len(args)) IN
       IF bad # 0
       THEN [callArgs |-> <<>>,
             err |-> ErrFactoryArgConvert(factoryName, bad - 1,
                        convertStringToType(args[bad], params[bad]).err)]
       ELSE [callArgs |-> [i \in 1..Len(args) |->
                             convertStringToType(args[i], params[i]).val],
             err |-> NoError]

prepareFactoryArgs(args, fn, factoryName) ==
  LET params == FuncParams(fn) IN
  IF Len(args) # Len(params)
  THEN [callArgs |-> <<>>,
        err |-> ErrFactoryArgCount(factoryName, Len(params), Len(args))]
  ELSE LET bad == FirstBadArg(args, params, 1) IN
       IF bad # 0
       THEN [callArgs |-> <<>>,
             err |-> ErrFactoryArgConvert(factoryName, bad - 1,
                        convertStringToType(args[bad], params[bad]).err)]
       ELSE [callArgs |-> [i \in 1..Len(args) |->
                             convertStringToType(args[i], params[i]).val],
             err |-> NoError]

\* The call is recorded in the calls made; a panic of the callable unwinds to
\* the recover of callFactoryFunction.
callAndValidateFactory(fn, callArgs, factoryName, fieldType) ==
  LET out == FuncCall(fn, callArgs) IN
  IF out.panic
  THEN [panic |-> TRUE, pval |-> out.pval, val |-> 0, err |-> NoError]
  ELSE IF Len(out.results) # 1
  THEN [panic |-> FALSE, pval |-> <<>>, val |-> 0,
        err |-> ErrFactoryReturnCount(factoryName)]
  ELSE IF ~AssignableTo(out.results[1].type, fieldType)
  THEN [panic |-> FALSE, pval |-> <<>>, val |-> 0,
        err |-> ErrFactoryReturnType(factoryName, out.results[1].type, fieldType)]
  \* the result as field.Set stores it: in an interface field, the value
  \* with its dynamic type
  ELSE [panic |-> FALSE, pval |-> <<>>,
        val |-> IF Kind(fieldType) = "interface"
                THEN MakeInterface(out.results[1].type, out.results[1].val)
                ELSE out.results[1].val,
        err |-> NoError]

\* callFactoryFunction after callAndValidateFactory gave res: the deferred
\* recover turns a panic into the error returned; field.Set on success
factoryCalled(res, fv, h, c2) ==
  IF res.panic THEN Fail(fv, h, c2, ErrFactoryPanic(res.pval))
  ELSE IF Len(res.err) > 0 THEN Fail(fv, h, c2, res.err)
  ELSE OK(res.val, h, c2)

\* callFactoryFunction after prepareFactoryArgs gave prep
factoryPrepared(prep, fv, fieldType, factoryName, fn, h, c) ==
  IF Len(prep.err) > 0 THEN Fail(fv, h, c, prep.err)
  ELSE factoryCalled(
         callAndValidateFactory(fn, prep.callArgs, factoryName, fieldType),
         fv, h, Append(c, [name |-> factoryName, fn |-> fn]))

\* callFactoryFunction after getAndValidateFactoryFunction gave got
factoryFound(got, fv, fieldType, parsed, h, c) ==
  IF Len(got.err) > 0 THEN Fail(fv, h, c, got.err)
  ELSE factoryPrepared(prepareFactoryArgs(parsed.args, got.fn, parsed.name),
                       fv, fieldType, parsed.name, got.fn, h, c)

\* callFactoryFunction after parseFactoryTag gave parsed
factoryParsed(parsed, fv, fieldType, h, c) ==
  factoryFound(getAndValidateFactoryFunction(parsed.name),
               fv, fieldType, parsed, h, c)

\* callFactoryFunction without the deferred recover: the panic of the callable
\* goes up the stack
factoryCalledNoRecover(r, pval) ==
  IF Len(r.err) > 0 /\ r.err = ErrFactoryPanic(pval)
  THEN Panic(r.val, r.heap, r.calls, r.err) ELSE r

callFactoryFunctionNoRecover(fv, fieldType, factoryTag, h, c) ==
  factoryCalledNoRecover(
    factoryParsed(parseFactoryTag(factoryTag), fv, fieldType, h, c), PanicText)

callFactoryFunction(fv, fieldType, factoryTag, h, c) ==
  factoryParsed(parseFactoryTag(factoryTag), fv, fieldType, h, c)

(***************************************************************************)
(* JSON unmarshal support.  encoding/json is modelled for the JSON texts   *)
(* whose value is a scalar or null; a text of another shape is reported    *)
(* as a syntax error of the decoder.                                       *)
(***************************************************************************)

IsJSONNumber(s) ==
  LET d == IF s # <<>> /\ Head(s) = "-" THEN Tail(s) ELSE s IN
  /\ d # <<>>
  /\ \A i \in 1..Len(d) : d[i] \in DigitChars
  /\ (Len(d) > 1 => Head(d) # "0")

IsJSONString(s) ==
  /\ Len(s) >= 2
  /\ s[1] = "\"" /\ s[Len(s)] = "\""
  /\ \A i \in 2..(Len(s) - 1) : s[i] \notin {"\"", "\\"}

\* json.Unmarshal(text, &target), target of type t holding cur
unmarshalJSONValue(cur, t, jsonData) ==
  LET s == TrimSpace(jsonData)
      k == Kind(t)
  IN
  IF s = JSONNull
    THEN IF k = "interface" THEN ConvOK(NilInterface) ELSE ConvOK(cur)
  ELSE IF s \in {<<"t","r","u","e">>, <<"f","a","l","s","e">>}
    THEN IF k = "bool" THEN ConvOK(s = <<"t","r","u","e">>)
         ELSE IF k = "interface"
           THEN ConvOK(MakeInterface("bool", s = <<"t","r","u","e">>))
         ELSE ConvErr(ErrJSONUnmarshal("cannot unmarshal bool"))
  ELSE IF IsJSONNumber(s)
    THEN IF k \in IntKinds /\ ParseInt(s, BitSize(k)).ok
           THEN ConvOK(ParseInt(s, BitSize(k)).val)
         ELSE IF k \in UintKinds /\ ParseUint(s, BitSize(k)).ok
           THEN ConvOK(ParseUint(s, BitSize(k)).val)
         \* a number decodes into an empty interface as a float64
         ELSE IF k = "interface" /\ ParseInt(s, BitSize("int")).ok
           THEN ConvOK(MakeInterface("float64", ParseInt(s, BitSize("int")).val))
         ELSE ConvErr(ErrJSONUnmarshal("cannot unmarshal number"))
  ELSE IF IsJSONString(s)
    THEN IF k = "string" THEN ConvOK(SubSeq(s, 2, Len(s) - 1))
         ELSE IF k = "interface"
           THEN ConvOK(MakeInterface("string", SubSeq(s, 2, Len(s) - 1)))
         ELSE ConvErr(ErrJSONUnmarshal("cannot unmarshal string"))
  ELSE ConvErr(ErrJSONUnmarshal("syntax"))

\* unmarshalJSON without the case for the text null
unmarshalJSONAllocNull(fv, t, jsonData, h, c) ==
  IF Kind(t) = "ptr"
  THEN LET elemType == TypeInfo(t).elem
           h1   == IF fv = 0 THEN Append(h, Zero(elemType)) ELSE h
           addr == IF fv = 0 THEN Len(h1) ELSE fv
           d    == unmarshalJSONValue(h1[addr], elemType, jsonData)
       IN  IF d.ok THEN OK(addr, [h1 EXCEPT ![addr] = d.val], c)
           ELSE Fail(addr, h1, c, d.err)
  ELSE LET d == unmarshalJSONValue(fv, t, jsonData) IN
       IF d.ok THEN OK(d.val, h, c) ELSE Fail(fv, h, c, d.err)

unmarshalJSON(fv, t, jsonData, h, c) ==
  IF Kind(t) = "ptr"
  THEN IF jsonData = JSONNull THEN OK(0, h, c)
       ELSE
         LET elemType == TypeInfo(t).elem
             h1   == IF fv = 0 THEN Append(h, Zero(elemType)) ELSE h
             addr == IF fv = 0 THEN Len(h1) ELSE fv
             d    == unmarshalJSONValue(h1[addr], elemType, jsonData)
         IN  IF d.ok THEN OK(addr, [h1 EXCEPT ![addr] = d.val], c)
             ELSE Fail(addr, h1, c, d.err)
  ELSE LET d == unmarshalJSONValue(fv, t, jsonData) IN
       IF d.ok THEN OK(d.val, h, c) ELSE Fail(fv, h, c, d.err)

(***************************************************************************)
(* Field value setting                                                     *)
(***************************************************************************)

\* time.Parse(time.RFC3339, tag), for the UTC form 2006-01-02T15:04:05Z;
\* the parsed time is kept as its text
IsRFC3339(s) ==
  /\ Len(s) = Len(<<"2","0","0","6","-","0","1","-","0","2","T",
                    "1","5",":","0","4",":","0","5","Z">>)
  /\ \A i \in 1..Len(s) :
       IF i \in {5, 8} THEN s[i] = "-"
       ELSE IF i = 11 THEN s[i] = "T"
       ELSE IF i \in {14, 17} THEN s[i] = ":"
       ELSE IF i = Len(s) THEN s[i] = "Z"
       ELSE s[i] \in DigitChars

setTimeValue(fv, tag, h, c) ==
  IF IsRFC3339(tag) THEN OK(<<tag>>, h, c)
  ELSE Fail(fv, h, c, <<Frame("time.Parse", "", "", tag, 0, 0)>>)

setStructValue(fv, t, tag, h, c) ==
  IF t = "time.Time" THEN setTimeValue(fv, tag, h, c)
  ELSE Fail(fv, h, c, ErrUnsupportedStruct(t))

setPrimitiveValue(fv, t, tag, h, c) ==
  LET conv == convertStringToType(tag, t) IN
  IF ~conv.ok THEN Fail(fv, h, c, conv.err) ELSE OK(conv.val, h, c)

\* Look for the variant-specific tag first, fall back to the default tag.
\* reflect.StructTag.Get gives the empty text for an absent key.
TagGet(fieldType, variant) ==
  IF variant \in DOMAIN fieldType.vtags THEN fieldType.vtags[variant] ELSE <<>>

\* getTagValueForVariant without the fall back to the default tag
getTagValueNoFallback(fieldType, variant) ==
  IF variant = <<>> THEN fieldType.tag ELSE TagGet(fieldType, variant)

getTagValueForVariant(fieldType, variant) ==
  IF variant = <<>> THEN fieldType.tag
  ELSE IF TagGet(fieldType, variant) # <<>> THEN TagGet(fieldType, variant)
  ELSE fieldType.tag

RECURSIVE fillFields(_, _, _, _, _, _)
RECURSIVE handleNestedFillWithVariant(_, _, _, _, _)
RECURSIVE setFieldValue(_, _, _, _, _)
RECURSIVE fillSliceElems(_, _, _, _, _, _, _)
RECURSIVE fillMapPairs(_, _, _, _, _, _)
RECURSIVE fillMapItems(_, _, _, _, _, _)
RECURSIVE sliceElemFilled(_, _, _, _, _, _)
RECURSIVE mapPairFilled(_, _, _, _, _, _, _)
RECURSIVE mapItemFilled(_, _, _, _, _, _, _)
RECURSIVE nestedHandled(_, _, _, _, _)
RECURSIVE fieldSet(_, _, _, _, _)

\* a setter that returns an error has not set the field
notSetOnError(r, fv) == IF Failed(r) THEN [r EXCEPT !.val = fv] ELSE r

fillStructWithVariant(structValue, t, variant, h, c) ==
  fillFields(structValue, t, variant, 1, h, c)

fillStruct(structValue, t, h, c) == fillStructWithVariant(structValue, t, <<>>, h, c)

\* setSliceValue converting the parts untrimmed
setPrimitiveSliceNoTrim(fv, t, tag, h, c) ==
  LET elemType == TypeInfo(t).elem
      parts == Split(tag, ",")
      conv(i) == convertStringToType(parts[i], elemType)
  IN  IF \E i \in 1..Len(parts) : ~conv(i).ok
      THEN Fail(fv, h, c, ErrUnsupportedSliceType(Kind(elemType)))
      ELSE OK(MakeSlice([i \in 1..Len(parts) |-> conv(i).val]), h, c)

\* setSliceValue, the loop over the parts of a primitive slice
setPrimitiveSlice(fv, t, tag, h, c) ==
  LET elemType == TypeInfo(t).elem
      parts == Split(tag, ",")
      conv(i) == convertStringToType(TrimSpace(parts[i]), elemType)
  IN  IF \E i \in 1..Len(parts) : ~conv(i).ok
      THEN Fail(fv, h, c, ErrUnsupportedSliceType(Kind(elemType)))
      ELSE OK(MakeSlice([i \in 1..Len(parts) |-> conv(i).val]), h, c)

\* setStructSliceValue: elements 1..Len(variants) of the new slice, element i
\* filled with variants[i]; counted says which of the two loops this is.
fillSliceElems(elemType, variants, counted, i, acc, h, c) ==
  IF i > Len(variants) THEN OK(MakeSlice(acc), h, c)
  ELSE
    sliceElemFilled(
      fillStructWithVariant(Zero(elemType), elemType, variants[i], h, c),
      elemType, variants, counted, i, acc)

\* the body of the loop after element i was filled with outcome r
sliceElemFilled(r, elemType, variants, counted, i, acc) ==
  IF r.panic THEN r
  ELSE IF Len(r.err) > 0
    THEN Fail(r.val, r.heap, r.calls,
              IF counted THEN ErrSliceElem(i - 1, r.err)
              ELSE ErrSliceElemVariant(i - 1, variants[i], r.err))
  ELSE fillSliceElems(elemType, variants, counted, i + 1, Append(acc, r.val),
                      r.heap, r.calls)

\* setStructSliceValue taking the listed variant names untrimmed
setStructSliceValueNoTrim(fv, t, tag, elemType, h, c) ==
  IF HasPrefix(tag, TagFillCount)
  THEN LET count == Atoi(TrimPrefix(tag, TagFillCount)) IN
       IF ~count.ok THEN Fail(fv, h, c, ErrSliceCount(tag))
       ELSE IF count.val < 0
         THEN Panic(fv, h, c, <<Frame("reflect.MakeSlice: negative len", "", "", tag, 0, 0)>>)
       ELSE notSetOnError(
              fillSliceElems(elemType, [i \in 1..count.val |-> <<>>],
                             TRUE, 1, <<>>, h, c),
              fv)
  ELSE IF HasPrefix(tag, TagVariant)
  THEN notSetOnError(
         fillSliceElems(elemType, Split(TrimPrefix(tag, TagVariant), ","),
                        FALSE, 1, <<>>, h, c), fv)
  ELSE Fail(fv, h, c, ErrUnsupportedSliceType(Kind(elemType)))

\* setStructSliceValue leaving the elements of a counted slice zero
setStructSliceValueUnfilled(fv, t, tag, elemType, h, c) ==
  IF HasPrefix(tag, TagFillCount)
  THEN LET count == Atoi(TrimPrefix(tag, TagFillCount)) IN
       IF ~count.ok THEN Fail(fv, h, c, ErrSliceCount(tag))
       ELSE IF count.val < 0
         THEN Panic(fv, h, c, <<Frame("reflect.MakeSlice: negative len", "", "", tag, 0, 0)>>)
       ELSE OK(MakeSlice([i \in 1..count.val |-> Zero(elemType)]), h, c)
  ELSE IF HasPrefix(tag, TagVariant)
  THEN LET raw == Split(TrimPrefix(tag, TagVariant), ",")
           variants == [i \in 1..Len(raw) |-> TrimSpace(raw[i])]
       IN  notSetOnError(
             fillSliceElems(elemType, variants, FALSE, 1, <<>>, h, c), fv)
  ELSE Fail(fv, h, c, ErrUnsupportedSliceType(Kind(elemType)))

setStructSliceValue(fv, t, tag, elemType, h, c) ==
  IF HasPrefix(tag, TagFillCount)
  THEN LET count == Atoi(TrimPrefix(tag, TagFillCount)) IN
       IF ~count.ok THEN Fail(fv, h, c, ErrSliceCount(tag))
       \* reflect.MakeSlice panics on a negative len
       ELSE IF count.val < 0
         THEN Panic(fv, h, c, <<Frame("reflect.MakeSlice: negative len", "", "", tag, 0, 0)>>)
       ELSE notSetOnError(
              fillSliceElems(elemType, [i \in 1..count.val |-> <<>>],
                             TRUE, 1, <<>>, h, c),
              fv)
  ELSE IF HasPrefix(tag, TagVariant)
  THEN LET raw == Split(TrimPrefix(tag, TagVariant), ",")
           variants == [i \in 1..Len(raw) |-> TrimSpace(raw[i])]
       IN  notSetOnError(
             fillSliceElems(elemType, variants, FALSE, 1, <<>>, h, c), fv)
  ELSE Fail(fv, h, c, ErrUnsupportedSliceType(Kind(elemType)))

setSliceValue(fv, t, tag, h, c) ==
  IF Kind(TypeInfo(t).elem) = "struct"
  THEN setStructSliceValue(fv, t, tag, TypeInfo(t).elem, h, c)
  ELSE setPrimitiveSlice(fv, t, tag, h, c)

\* setMapValue, the loop over the pairs of a primitive map
RECURSIVE primitiveMapPairs(_, _, _, _, _)
primitiveMapPairs(pairs, i, m, keyType, valueType) ==
  IF i > Len(pairs) THEN [ok |-> TRUE, val |-> m, err |-> NoError]
  ELSE
    LET kv == Split(TrimSpace(pairs[i]), ":") IN
    IF Len(kv) # 2
    THEN [ok |-> FALSE, val |-> m, err |-> ErrInvalidMapFormat(pairs[i])]
    ELSE
      LET keyValue   == convertStringToType(TrimSpace(kv[1]), keyType)
          valueValue == convertStringToType(TrimSpace(kv[2]), valueType)
      IN  IF ~keyValue.ok \/ ~valueValue.ok
          THEN [ok |-> FALSE, val |-> m,
                err |-> ErrUnsupportedMapType(Kind(keyType), Kind(valueType))]
          ELSE primitiveMapPairs(pairs, i + 1,
                                 SetMapIndex(m, keyValue.val, valueValue.val),
                                 keyType, valueType)

\* setStructMapValue, the loop over the key:fill / key:variant pairs
fillMapPairs(pairs, i, m, valueType, h, c) ==
  IF i > Len(pairs) THEN OK(m, h, c)
  ELSE
    LET kv == Split(TrimSpace(pairs[i]), ":") IN
    IF Len(kv) # 2 THEN Fail(m, h, c, ErrInvalidMapFormat(pairs[i]))
    ELSE
      mapPairFilled(
        fillStructWithVariant(
          Zero(valueType), valueType,
          IF TrimSpace(kv[2]) = TagFill THEN <<>> ELSE TrimSpace(kv[2]), h, c),
        pairs, i, m, valueType, TrimSpace(kv[1]), TrimSpace(kv[2]))

\* the body of the loop after the value of pair i was filled with outcome r
mapPairFilled(r, pairs, i, m, valueType, keyStr, valueStr) ==
  IF r.panic THEN r
  ELSE IF Len(r.err) > 0
    THEN Fail(m, r.heap, r.calls,
              IF valueStr = TagFill THEN ErrMapValue(keyStr, r.err)
              ELSE ErrMapValueVariant(keyStr, valueStr, r.err))
  ELSE fillMapPairs(pairs, i + 1, SetMapIndex(m, keyStr, r.val),
                    valueType, r.heap, r.calls)

\* setStructMapWithVariants, the loop over the key=variant items
fillMapItems(items, i, m, valueType, h, c) ==
  IF i > Len(items) THEN OK(m, h, c)
  ELSE
    LET kv == Split(items[i], "=") IN
    IF Len(kv) # 2 THEN Fail(m, h, c, ErrKeyVariantFormat(items[i]))
    ELSE
      mapItemFilled(
        fillStructWithVariant(Zero(valueType), valueType, TrimSpace(kv[2]), h, c),
        items, i, m, valueType, TrimSpace(kv[1]), TrimSpace(kv[2]))

\* the body of the loop after the value of item i was filled with outcome r
mapItemFilled(r, items, i, m, valueType, keyStr, variant) ==
  IF r.panic THEN r
  ELSE IF Len(r.err) > 0
    THEN Fail(m, r.heap, r.calls, ErrMapValueVariant(keyStr, variant, r.err))
  ELSE fillMapItems(items, i + 1, SetMapIndex(m, keyStr, r.val),
                    valueType, r.heap, r.calls)

setStructMapWithVariants(fv, tag, valueType, h, c) ==
  LET raw == Split(TrimPrefix(tag, TagVariant), ",")
      items == [i \in 1..Len(raw) |-> TrimSpace(raw[i])]
  IN  notSetOnError(fillMapItems(items, 1, MakeMap, valueType, h, c), fv)

\* setStructMapValue looking at the key type only for key:fill pairs
setStructMapValueLateKeyCheck(fv, tag, keyType, valueType, h, c) ==
  IF HasPrefix(tag, TagVariant)
  THEN setStructMapWithVariants(fv, tag, valueType, h, c)
  ELSE IF Kind(keyType) # "string"
  THEN Fail(fv, h, c, ErrUnsupportedMapType(Kind(keyType), Kind(valueType)))
  ELSE notSetOnError(
         fillMapPairs(Split(tag, ","), 1, MakeMap, valueType, h, c), fv)

setStructMapValue(fv, tag, keyType, valueType, h, c) ==
  IF Kind(keyType) # "string"
  THEN Fail(fv, h, c, ErrUnsupportedMapType(Kind(keyType), Kind(valueType)))
  ELSE IF HasPrefix(tag, TagVariant)
  THEN setStructMapWithVariants(fv, tag, valueType, h, c)
  ELSE notSetOnError(
         fillMapPairs(Split(tag, ","), 1, MakeMap, valueType, h, c), fv)

setMapValue(fv, t, tag, h, c) ==
  LET keyType   == TypeInfo(t).key
      valueType == TypeInfo(t).elem
  IN
  IF Kind(valueType) = "struct"
  THEN setStructMapValue(fv, tag, keyType, valueType, h, c)
  ELSE LET r == primitiveMapPairs(Split(tag, ","), 1, MakeMap, keyType, valueType) IN
       IF r.ok THEN OK(r.val, h, c) ELSE Fail(fv, h, c, r.err)

\* the value is built in a new cell; the field is pointed at it on success
ptrValueSet(r, fv) ==
  IF Failed(r) THEN [r EXCEPT !.val = fv]
  ELSE OK(Len(r.heap) + 1, Append(r.heap, r.val), r.calls)

setPtrValue(fv, t, tag, h, c) ==
  ptrValueSet(
    setFieldValue(Zero(TypeInfo(t).elem), TypeInfo(t).elem, tag, h, c), fv)

\* setFieldValue passing over a kind no setter handles
setFieldValueSkipUnsupported(fv, t, tag, h, c) ==
  IF HasPrefix(tag, TagUnmarshal)
  THEN unmarshalJSON(fv, t, TrimPrefix(tag, TagUnmarshal), h, c)
  ELSE IF HasPrefix(tag, TagFactory)
  THEN callFactoryFunction(fv, t, TrimPrefix(tag, TagFactory), h, c)
  ELSE
    LET k == Kind(t) IN
    CASE k \in {"string", "bool"} \cup IntKinds \cup UintKinds ->
           setPrimitiveValue(fv, t, tag, h, c)
      [] k = "slice"  -> setSliceValue(fv, t, tag, h, c)
      [] k = "map"    -> setMapValue(fv, t, tag, h, c)
      [] k = "ptr"    -> setPtrValue(fv, t, tag, h, c)
      [] k = "struct" -> setStructValue(fv, t, tag, h, c)
      [] OTHER        -> OK(fv, h, c)

setFieldValue(fv, t, tag, h, c) ==
  IF HasPrefix(tag, TagUnmarshal)
  THEN unmarshalJSON(fv, t, TrimPrefix(tag, TagUnmarshal), h, c)
  ELSE IF HasPrefix(tag, TagFactory)
  THEN callFactoryFunction(fv, t, TrimPrefix(tag, TagFactory), h, c)
  ELSE
    LET k == Kind(t) IN
    CASE k \in {"string", "bool"} \cup IntKinds \cup UintKinds ->
           setPrimitiveValue(fv, t, tag, h, c)
      [] k = "slice"  -> setSliceValue(fv, t, tag, h, c)
      [] k = "map"    -> setMapValue(fv, t, tag, h, c)
      [] k = "ptr"    -> setPtrValue(fv, t, tag, h, c)
      [] k = "struct" -> setStructValue(fv, t, tag, h, c)
      [] OTHER        -> Fail(fv, h, c, ErrUnsupportedField(k))

(***************************************************************************)
(* Nested struct handling and the core loop                                *)
(***************************************************************************)

\* the struct branch after the nested struct was filled with outcome r
nestedStructFilled(r, name) ==
  IF ~r.panic /\ Len(r.err) > 0
  THEN [r EXCEPT !.err = ErrNestedStruct(name, r.err)]
  ELSE r

\* the pointer branch after the struct in cell addr was filled with outcome r
nestedPtrFilled(r, addr, name) ==
  [val |-> addr, heap |-> [r.heap EXCEPT ![addr] = r.val], calls |-> r.calls,
   err |-> IF ~r.panic /\ Len(r.err) > 0
           THEN ErrNestedStructPtr(name, r.err) ELSE r.err,
   panic |-> r.panic]

\* handleNestedFillWithVariant recursing with the default variant, as
\* handleNestedFill of fillStruct does
handleNestedFill(fv, fieldType, variant, h, c) ==
  LET k == Kind(fieldType.type) IN
  IF k = "struct"
  THEN nestedStructFilled(
         fillStructWithVariant(fv, fieldType.type, <<>>, h, c), fieldType.name)
  ELSE IF k = "ptr" /\ Kind(TypeInfo(fieldType.type).elem) = "struct"
  THEN LET elemType == TypeInfo(fieldType.type).elem
           h1   == IF fv = 0 THEN Append(h, Zero(elemType)) ELSE h
           addr == IF fv = 0 THEN Len(h1) ELSE fv
       IN  nestedPtrFilled(
             fillStructWithVariant(h1[addr], elemType, <<>>, h1, c),
             addr, fieldType.name)
  ELSE OK(fv, h, c)

\* handleNestedFillWithVariant returning once it has made the instance for a
\* nil pointer
handleNestedFillNewOnly(fv, fieldType, variant, h, c) ==
  LET k == Kind(fieldType.type) IN
  IF k = "struct"
  THEN nestedStructFilled(
         fillStructWithVariant(fv, fieldType.type, variant, h, c), fieldType.name)
  ELSE IF k = "ptr" /\ Kind(TypeInfo(fieldType.type).elem) = "struct"
  THEN IF fv = 0
       THEN OK(Len(h) + 1, Append(h, Zero(TypeInfo(fieldType.type).elem)), c)
       ELSE nestedPtrFilled(
              fillStructWithVariant(h[fv], TypeInfo(fieldType.type).elem,
                                    variant, h, c),
              fv, fieldType.name)
  ELSE OK(fv, h, c)

handleNestedFillWithVariant(fv, fieldType, variant, h, c) ==
  LET k == Kind(fieldType.type) IN
  IF k = "struct"
  THEN nestedStructFilled(
         fillStructWithVariant(fv, fieldType.type, variant, h, c), fieldType.name)
  ELSE IF k = "ptr" /\ Kind(TypeInfo(fieldType.type).elem) = "struct"
  THEN LET elemType == TypeInfo(fieldType.type).elem
           \* Create new instance if nil
           h1   == IF fv = 0 THEN Append(h, Zero(elemType)) ELSE h
           addr == IF fv = 0 THEN Len(h1) ELSE fv
       IN  nestedPtrFilled(
             fillStructWithVariant(h1[addr], elemType, variant, h1, c),
             addr, fieldType.name)
  ELSE OK(fv, h, c)

\* the loop after handleNestedFillWithVariant gave r for field i
nestedHandled(r, structValue, t, variant, i) ==
  IF Failed(r) THEN [r EXCEPT !.val = [structValue EXCEPT ![i] = r.val]]
  ELSE fillFields([structValue EXCEPT ![i] = r.val], t, variant, i + 1,
                  r.heap, r.calls)

\* the outcome rest of the later fields, with the error e found before them
afterError(rest, e) ==
  IF rest.panic THEN rest ELSE [rest EXCEPT !.err = e]

\* the loop going on to the later fields after setFieldValue failed for field i
fieldSetKeepGoing(r, structValue, t, variant, i) ==
  IF r.panic THEN [r EXCEPT !.val = [structValue EXCEPT ![i] = r.val]]
  ELSE IF Len(r.err) > 0
  THEN afterError(fillFields([structValue EXCEPT ![i] = r.val], t, variant, i + 1,
                             r.heap, r.calls),
                  ErrSetField(Fields(t)[i].name, r.err))
  ELSE fillFields([structValue EXCEPT ![i] = r.val], t, variant, i + 1,
                  r.heap, r.calls)

\* the loop after setFieldValue gave r for field i
fieldSet(r, structValue, t, variant, i) ==
  IF r.panic THEN [r EXCEPT !.val = [structValue EXCEPT ![i] = r.val]]
  ELSE IF Len(r.err) > 0
  THEN [r EXCEPT !.val = [structValue EXCEPT ![i] = r.val],
                 !.err = ErrSetField(Fields(t)[i].name, r.err)]
  ELSE fillFields([structValue EXCEPT ![i] = r.val], t, variant, i + 1,
                  r.heap, r.calls)

\* fillStructWithVariant without the CanSet check
fillFieldsAnyField(structValue, t, variant, i, h, c) ==
  IF i > Len(Fields(t)) THEN OK(structValue, h, c)
  ELSE
    LET fieldType == Fields(t)[i]
        fieldValue == structValue[i]
        tagValue == getTagValueForVariant(fieldType, variant)
    IN
    IF tagValue = TagFill
    THEN nestedHandled(
           handleNestedFillWithVariant(fieldValue, fieldType, variant, h, c),
           structValue, t, variant, i)
    ELSE IF tagValue = <<>> THEN fillFields(structValue, t, variant, i + 1, h, c)
    ELSE IF ~isZeroValue(fieldValue, fieldType.type)
    THEN fillFields(structValue, t, variant, i + 1, h, c)
    ELSE fieldSet(setFieldValue(fieldValue, fieldType.type, tagValue, h, c),
                  structValue, t, variant, i)

\* fillStructWithVariant, the loop from field i on
fillFields(structValue, t, variant, i, h, c) ==
  IF i > Len(Fields(t)) THEN OK(structValue, h, c)
  ELSE
    LET fieldType == Fields(t)[i]
        fieldValue == structValue[i]
        tagValue == getTagValueForVariant(fieldType, variant)
    IN
    \* CanSet: the field is exported
    IF ~fieldType.exported THEN fillFields(structValue, t, variant, i + 1, h, c)
    ELSE IF tagValue = TagFill
    THEN nestedHandled(
           handleNestedFillWithVariant(fieldValue, fieldType, variant, h, c),
           structValue, t, variant, i)
    ELSE IF tagValue = <<>> THEN fillFields(structValue, t, variant, i + 1, h, c)
    ELSE IF ~isZeroValue(fieldValue, fieldType.type)
    THEN fillFields(structValue, t, variant, i + 1, h, c)
    ELSE fieldSet(setFieldValue(fieldValue, fieldType.type, tagValue, h, c),
                  structValue, t, variant, i)

(***************************************************************************)
(* The inputs the callers pass: a value of the type and the caller's heap  *)
(* (the cells the value's pointers point to).                              *)
(***************************************************************************)

MaxInt == 1
MaxPreLen == 1

IntValues == 0..MaxInt
StringValues == {<<>>, <<"c">>}
BarValues == {<<i, s>> : i \in IntValues, s \in StringValues}
CustomVOValues == {<< <<>> >>, << <<"e">> >>}

In(v, h) == [val |-> v, heap |-> h]

\* no pointer set, or one Bar cell that either pointer or both point to
FooInputs ==
  { In(<<i, b, 0, 0, 0>>, <<>>) : i \in IntValues, b \in BarValues }
  \cup
  { In(<<0, Zero("Bar"), p[1], p[2], 0>>, <<cell>>) :
      p \in {<<1, 0>>, <<0, 1>>, <<1, 1>>},
      cell \in {Zero("Bar"), <<0, <<"c">>>>} }
  \cup
  \* every tagged field set by the caller, the nested structs in full or not
  { In(<<MaxInt, b, 1, 0, 0>>, <<cell>>) :
      b \in {<<MaxInt, <<"c">>>>, <<MaxInt, <<>>>>},
      cell \in {<<MaxInt, <<"c">>>>, <<0, <<"c">>>>} }

BazValues(p) ==
  { <<v, b, p, Zero("Bar")>> : v \in {0, MaxInt}, b \in {Zero("Bar"), <<MaxInt, <<>>>>} }

\* without pointers, and with one Bar cell reached through both fill-tagged
\* paths (Deep.DeeplyNestedWithFillTag.PtrBar and Deep.DeeplyNestedPtr.PtrBar)
DeepInputs ==
  { In(<<n, z, 0>>, <<>>) : n \in StringValues, z \in BazValues(0) }
  \cup
  { In(<<<<>>, z, 2>>, <<bar, cell>>) :
      z \in {<<0, Zero("Bar"), 1, Zero("Bar")>>},
      bar \in {Zero("Bar"), <<0, <<"c">>>>}, cell \in BazValues(1) }
  \cup
  { In(<<<<>>, Zero("Baz"), 1>>, <<Zero("Baz")>>) }

\* the slices a caller has built: up to MaxPreLen elements, each e
PreSlices(e) == { MakeSlice([i \in 1..n |-> e]) : n \in 0..MaxPreLen }

OneItem == MakeSlice(<<Zero("Bar")>>)
OneString == SetMapIndex(MakeMap, <<"q">>, <<"r">>)
OneUser == SetMapIndex(MakeMap, <<"q">>, Zero("Bar"))

CollInputs ==
  { In(<<tags, users, rest[1], rest[2], rest[3]>>, <<>>) :
      tags \in {NilSlice} \cup PreSlices(<<"c">>),
      users \in {NilSlice} \cup PreSlices(<<0, <<"c">>>>),
      rest \in { <<NilSlice, NilMap, NilMap>>, <<OneItem, NilMap, NilMap>>,
                 <<NilSlice, MakeMap, NilMap>>, <<NilSlice, OneString, OneUser>>,
                 <<OneItem, OneString, OneUser>> } }

FactInputs ==
  { In(<<b, vo, wa, 0>>, <<>>) :
      b \in IntValues, vo \in CustomVOValues, wa \in CustomVOValues }

WrapInputs ==
  { In(<<f, facts, fm>>, <<>>) :
      f \in {Zero("Fact"), <<0, << <<"e">> >>, << <<"e">> >>, 0>>},
      facts \in {NilSlice, MakeSlice(<<>>)},
      fm \in {NilMap, MakeMap} }

\* the test structs are passed zero; some also with fields the caller set
TestInputs(t) ==
  {In(Zero(t), <<>>)} \cup
  CASE t = "MixedFieldStruct" ->
         { In(<<<<>>, MaxInt, FALSE, <<"c">>>>, <<>>),
           In(<<<<"c">>, MaxInt, TRUE, <<"c">>>>, <<>>) }
    [] t = "ContainerStruct" ->
         { In(<< <<s>>, o >>, <<>>) : s \in StringValues, o \in StringValues }
    [] t = "VariantOnly" ->
         { In(<< <<"c">>, b >>, <<>>) : b \in {Zero("Bar"), <<MaxInt, <<>>>>} }
    [] t = "InterfaceStruct" ->
         { In(<<x, n, n, x, n, n>>, <<>>) :
             x \in {NilInterface, MakeInterface("int", MaxInt)}, n \in {0, 1} }
    [] t = "ChanLiteral" -> { In(<<1>>, <<>>) }
    [] t = "InterfaceFactory" -> { In(<<MakeInterface("int", MaxInt)>>, <<>>) }
    [] t = "TestJSON" ->
         { In(<<<<"c">>, MaxInt, TRUE, 1, 1, MakeInterface("int", MaxInt)>>,
              << <<"c">> >>),
           In(<<<<"c">>, 0, TRUE, 0, 1, NilInterface>>, << <<>> >>) }
    [] t = "InvalidPtrJSON" -> { In(<<1>>, << <<>> >>) }
    [] t = "StringIntMapTest" -> { In(<<MakeMap>>, <<>>) }
    [] t = "ArrayOfInt" -> { In(<<s>>, <<>>) : s \in PreSlices(MaxInt) }
    [] t = "ContainerWithError" ->
         { In(<<1, 0>>, <<cell>>) : cell \in {<<0, 0>>, <<0, MaxInt>>} }
    [] OTHER -> {}

InputTypes == {"Foo", "Deep", "Coll", "Fact", "Wrap",
               "int", "string", "[]int", "*Fact"}
              \cup (DOMAIN TestStructs \ {"Node"})

Inputs(t) ==
  CASE t = "Foo"  -> FooInputs
    [] t = "Deep" -> DeepInputs
    [] t = "Coll" -> CollInputs
    [] t = "Fact" -> FactInputs
    [] t = "Wrap" -> WrapInputs
    [] t = "int"  -> { In(MaxInt, <<>>) }
    [] t = "string" -> { In(<<"c">>, <<>>) }
    [] t = "[]int"  -> { In(MakeSlice(<<MaxInt>>), <<>>) }
    [] t = "*Fact"  -> { In(0, <<>>), In(1, <<Zero("Fact")>>) }
    [] OTHER -> TestInputs(t)

Variants == {<<>>, VariantA, VariantZ}

(***************************************************************************)
(* Main API functions                                                      *)
(***************************************************************************)

NoOp == [kind |-> "none", name |-> <<>>, fn |-> NilFunc, prev |-> NilFunc]

\* Fill returning the working copy with the error
structFilledPartial(r, t) ==
  [work |-> r.val, output |-> r.val,
   heap |-> r.heap, calls |-> r.calls, err |-> r.err, panic |-> r.panic]

\* Fill after fillStruct gave r: the zero value with the error, else the copy
structFilled(r, t) ==
  [work |-> r.val,
   output |-> IF Failed(r) THEN Zero(t) ELSE r.val,
   heap |-> r.heap, calls |-> r.calls, err |-> r.err, panic |-> r.panic]

\* Fill looking through a pointer to a struct
FillOutcomeDeref(t, x, variant) ==
  IF Kind(t) = "ptr" /\ x.val # 0
  THEN nestedPtrFilled(
         fillStructWithVariant(x.heap[x.val], TypeInfo(t).elem, variant,
                               x.heap, <<>>),
         x.val, "") @@ [work |-> x.val, output |-> x.val]
  ELSE IF Kind(t) # "struct"
  THEN [work |-> x.val, output |-> Zero(t), heap |-> x.heap, calls |-> <<>>,
        err |-> ErrNotStruct(t), panic |-> FALSE]
  ELSE structFilled(fillStructWithVariant(x.val, t, variant, x.heap, <<>>), t)

\* what Fill and FillWithVariant return for input x of type t: the value, the
\* error, and besides them the working copy (resultValue), the heap and the
\* factory calls made, which the caller can observe through its pointers and
\* its callables
FillOutcome(t, x, variant) ==
  IF Kind(t) # "struct"
  THEN [work |-> x.val, output |-> Zero(t), heap |-> x.heap, calls |-> <<>>,
        err |-> ErrNotStruct(t), panic |-> FALSE]
  ELSE
    \* Create a copy to work with: resultValue shares the cells of the input
    structFilled(fillStructWithVariant(x.val, t, variant, x.heap, <<>>), t)

\* The caller makes one call at a time: a call is made when no call is being
\* looked at (op is NoOp), and the state after it holds what it returned.
Returns(kind, t, x, variant, out) ==
  /\ op' = [NoOp EXCEPT !.kind = kind]
  /\ inputType' = t
  /\ input' = x.val
  /\ variantArg' = variant
  /\ callerHeap' = x.heap
  /\ heap' = out.heap
  /\ work' = out.work
  /\ result' = out.output
  /\ err' = out.err
  /\ calls' = out.calls
  /\ panicked' = out.panic
  /\ UNCHANGED <<factoryRegistry, goroutine>>

Fill(t, x) ==
  /\ op = NoOp
  /\ Returns("Fill", t, x, <<>>, FillOutcome(t, x, <<>>))

FillWithVariant(t, x, variant) ==
  /\ op = NoOp
  /\ Returns("FillWithVariant", t, x, variant, FillOutcome(t, x, variant))

\* RegisterFactory keeping the entry a name already has
RegisterFactoryFirstWins(name, fn) ==
  /\ op = NoOp
  /\ factoryRegistry' =
       [n \in (DOMAIN factoryRegistry) \cup {name} |->
          IF n \in DOMAIN factoryRegistry THEN factoryRegistry[n] ELSE fn]
  /\ op' = [kind |-> "RegisterFactory", name |-> name, fn |-> fn,
            prev |-> getFactoryFunction(name)]
  /\ UNCHANGED <<inputType, input, variantArg, callerHeap, heap, work,
                 result, err, calls, panicked, goroutine>>

\* factoryRegistry[name] = fn.  op records the call and the entry it replaced.
RegisterFactory(name, fn) ==
  /\ op = NoOp
  /\ factoryRegistry' =
       [n \in (DOMAIN factoryRegistry) \cup {name} |->
          IF n = name THEN fn ELSE factoryRegistry[n]]
  /\ op' = [kind |-> "RegisterFactory", name |-> name, fn |-> fn,
            prev |-> getFactoryFunction(name)]
  /\ UNCHANGED <<inputType, input, variantArg, callerHeap, heap, work,
                 result, err, calls, panicked, goroutine>>

\* The caller is done with what the last call returned; of the program's
\* state the registry alone remains.
Done ==
  /\ op # NoOp
  /\ op' = NoOp
  /\ inputType' = "int"
  /\ input' = 0
  /\ variantArg' = <<>>
  /\ callerHeap' = <<>>
  /\ heap' = <<>>
  /\ work' = 0
  /\ result' = 0
  /\ err' = NoError
  /\ calls' = <<>>
  /\ panicked' = FALSE
  /\ UNCHANGED <<factoryRegistry, goroutine>>

Init ==
  /\ factoryRegistry = [n \in {} |-> NilFunc]
  /\ op = NoOp
  /\ inputType = "int"
  /\ input = 0
  /\ variantArg = <<>>
  /\ callerHeap = <<>>
  /\ heap = <<>>
  /\ work = 0
  /\ result = 0
  /\ err = NoError
  /\ calls = <<>>
  /\ panicked = FALSE
  /\ goroutine = <<>>

Next ==
  \/ \E name \in FactoryNames, fn \in FuncIds : RegisterFactory(name, fn)
  \/ \E t \in InputTypes : \E x \in Inputs(t) : Fill(t, x)
  \/ \E t \in InputTypes : \E x \in Inputs(t) : \E v \in Variants :
       FillWithVariant(t, x, v)
  \/ Done

Spec == Init /\ [][Next]_vars

(***************************************************************************)
(* Properties                                                              *)
(***************************************************************************)

IsFill == op.kind \in {"Fill", "FillWithVariant"}
Returned == IsFill /\ ~panicked
Succeeded == Returned /\ Len(err) = 0
OfStruct == Kind(inputType) = "struct"

\* Whether a value of type t read in heap h1 equals one read in heap h2,
\* pointers being followed to the cells they point to.
RECURSIVE DeepEq(_, _, _, _, _)
DeepEq(t, v1, h1, v2, h2) ==
  LET ti == TypeInfo(t) IN
  CASE ti.kind = "struct" ->
         \A i \in 1..Len(ti.fields) :
           DeepEq(ti.fields[i].type, v1[i], h1, v2[i], h2)
    [] ti.kind = "ptr" ->
         IF v1 = 0 \/ v2 = 0 THEN v1 = v2
         ELSE DeepEq(ti.elem, h1[v1], h1, h2[v2], h2)
    [] OTHER -> v1 = v2

----------------------------------------------------------------------------
\* out keeps every non-zero field of in whose directive is not fill, the
\* fill-tagged structs and pointers being followed
RECURSIVE NonZeroKept(_, _, _, _, _, _)
NonZeroKept(t, in, out, variant, hIn, hOut) ==
  \A i \in 1..Len(Fields(t)) :
    LET f   == Fields(t)[i]
        tag == getTagValueForVariant(f, variant)
    IN  f.exported =>
          IF tag = TagFill
          THEN CASE Kind(f.type) = "struct" ->
                      NonZeroKept(f.type, in[i], out[i], variant, hIn, hOut)
                 [] Kind(f.type) = "ptr" /\ in[i] # 0 ->
                      /\ out[i] # 0
                      /\ NonZeroKept(TypeInfo(f.type).elem, hIn[in[i]],
                                     hOut[out[i]], variant, hIn, hOut)
                 [] OTHER -> TRUE
          ELSE ~IsZero(in[i], f.type) => out[i] = in[i]

\* C1: in the value a successful Fill or FillWithVariant returns, every
\* exported field that was non-zero on input and whose resolved directive is
\* not exactly "fill" holds its input value, at every depth reached through
\* fill-tagged nested structs and pointers.
C1_NonZeroFieldsKept ==
  (Succeeded /\ OfStruct) =>
    NonZeroKept(inputType, input, result, variantArg, callerHeap, heap)

\* a non-zero field two structs deep is kept while its zero sibling is filled
C1_Witness ==
  /\ Succeeded /\ inputType = "Deep"
  /\ input[2][2][1] # 0
  /\ result[2][2][1] = input[2][2][1]
  /\ input[2][2][2] = <<>> /\ result[2][2][2] # <<>>

----------------------------------------------------------------------------
\* C2: whenever Fill or FillWithVariant returns a non-nil error, the value it
\* returns is the zero value of T, however many fields were filled before
\* the failing one.
C2_ZeroValueOnError ==
  (Returned /\ Len(err) > 0) => result = Zero(inputType)

\* an error after a field of the working copy has been filled
C2_Witness ==
  /\ Returned /\ Len(err) > 0 /\ inputType = "Fact"
  /\ input[1] = 0 /\ work[1] # 0
  /\ result = Zero("Fact")

----------------------------------------------------------------------------
\* C3: after the call, on success and on error alike, no data reachable from
\* the caller's input has changed, the struct a non-nil fill-tagged pointer
\* points to included.
C3_CallerDataUnchanged ==
  IsFill => \A a \in DOMAIN callerHeap : heap[a] = callerHeap[a]

----------------------------------------------------------------------------
----------------------------------------------------------------------------
\* The directive the tags of a field give for a variant, as the documentation
\* of the variants states it.
ResolvedDirective(f, variant) ==
  IF variant # <<>> /\ variant \in DOMAIN f.vtags /\ f.vtags[variant] # <<>>
  THEN f.vtags[variant]
  ELSE f.tag

ScalarKinds == {"string", "bool"} \cup IntKinds \cup UintKinds

IsLiteral(tag) ==
  /\ tag # <<>> /\ tag # TagFill
  /\ ~HasPrefix(tag, TagFactory) /\ ~HasPrefix(tag, TagUnmarshal)

\* Whether a field of t, or of a type reached from t, declares a non-empty
\* testfill_<variant> tag.
RECURSIVE DeclaresVariant(_, _)
DeclaresVariant(t, variant) ==
  LET ti == TypeInfo(t) IN
  CASE ti.kind = "struct" ->
         \E i \in 1..Len(ti.fields) :
           \/ TagGet(ti.fields[i], variant) # <<>>
           \/ DeclaresVariant(ti.fields[i].type, variant)
    [] ti.kind \in {"ptr", "slice", "map"} -> DeclaresVariant(ti.elem, variant)
    [] OTHER -> FALSE

\* Two values of struct type t agree on every exported field without a
\* testfill_<variant> tag whose directive is not fill, at every depth reached
\* through the fill-tagged fields; a pointer field agrees when it holds the
\* same address.
RECURSIVE SameWhereNoVariantTag(_, _, _, _, _, _)
SameWhereNoVariantTag(t, variant, v1, h1, v2, h2) ==
  \A i \in 1..Len(Fields(t)) :
    LET f == Fields(t)[i] IN
    (f.exported /\ TagGet(f, variant) = <<>>) =>
      IF f.tag = TagFill /\ Kind(f.type) = "struct"
      THEN SameWhereNoVariantTag(f.type, variant, v1[i], h1, v2[i], h2)
      ELSE IF f.tag = TagFill /\ Kind(f.type) = "ptr"
      THEN /\ v1[i] # 0 /\ v2[i] # 0
           /\ SameWhereNoVariantTag(TypeInfo(f.type).elem, variant,
                                    h1[v1[i]], h1, h2[v2[i]], h2)
      ELSE v1[i] = v2[i]

\* the top-level scalar fields that were zero hold the converted directive
DirectiveUsed(t, variant, in, out) ==
  \A i \in 1..Len(Fields(t)) :
    LET f == Fields(t)[i] IN
    (/\ f.exported /\ Kind(f.type) \in ScalarKinds
     /\ IsLiteral(ResolvedDirective(f, variant)) /\ IsZero(in[i], f.type)) =>
      out[i] = convertStringToType(ResolvedDirective(f, variant), f.type).val

\* def is what Fill returns for the input of the FillWithVariant looked at
AgreesWithDefault(def) ==
  /\ Len(err) = 0 => DirectiveUsed(inputType, variantArg, input, result)
  /\ (Len(err) = 0 /\ Len(def.err) = 0 /\ ~def.panic) =>
       SameWhereNoVariantTag(inputType, variantArg, result, heap,
                             def.output, def.heap)
  /\ ~DeclaresVariant(inputType, variantArg) =>
       /\ err = def.err /\ result = def.output
       /\ heap = def.heap /\ calls = def.calls

\* C5: FillWithVariant(x, v) resolves each field's directive to testfill_<v>
\* when that tag is present and non-empty and to the default tag otherwise;
\* when it and Fill(x) both succeed they agree on every field that declares no
\* testfill_<v> tag and whose directive is not fill, at every depth; and when
\* no field reachable from T declares testfill_<v>, it returns the value and
\* the error Fill(x) returns.
C5_VariantFallback ==
  (op.kind = "FillWithVariant" /\ OfStruct /\ ~panicked) =>
    AgreesWithDefault(FillOutcome(inputType, In(input, callerHeap), <<>>))

\* variant a on Deep: Name, whose testfill_a tag is empty, gets the default
\* tag's value, Value gets its testfill_a value
C5_Witness ==
  /\ op.kind = "FillWithVariant" /\ Len(err) = 0 /\ ~panicked
  /\ inputType = "Deep" /\ variantArg = VariantA
  /\ input[1] = <<>> /\ result[1] = <<"D">>
  /\ input[2][1] = 0 /\ result[2][1] # 0

EveryFieldAsDefault(def) ==
  (Len(def.err) = 0 /\ ~def.panic) =>
    \A i \in 1..Len(Fields(inputType)) :
      LET f == Fields(inputType)[i] IN
      (f.exported /\ variantArg \notin DOMAIN f.vtags) =>
        IF Kind(f.type) = "ptr"
        THEN (result[i] = 0) = (def.output[i] = 0)
        ELSE result[i] = def.output[i]

\* C5 as stated: every field that declares no testfill_<v> tag has, after a
\* successful FillWithVariant(x, v), the value Fill(x) gives it.
C5_AsStated ==
  (op.kind = "FillWithVariant" /\ OfStruct /\ ~panicked /\ Len(err) = 0) =>
    EveryFieldAsDefault(FillOutcome(inputType, In(input, callerHeap), <<>>))

----------------------------------------------------------------------------
FactoryCall(name) == [name |-> name, fn |-> factoryRegistry[name]]

\* A step of the program: an entry is never removed; RegisterFactory(n, f)
\* leaves f under n and every other entry as it was; Fill and FillWithVariant
\* leave the registry as it was, every callable they invoke is the one the
\* registry holds under the name of the directive, and a zero field tagged
\* factory:U invokes the callable under U.
C6_Step ==
  /\ DOMAIN factoryRegistry \subseteq DOMAIN factoryRegistry'
  /\ op'.kind = "RegisterFactory" =>
       /\ DOMAIN factoryRegistry' = (DOMAIN factoryRegistry) \cup {op'.name}
       /\ factoryRegistry'[op'.name] = op'.fn
       /\ \A n \in (DOMAIN factoryRegistry) \ {op'.name} :
            factoryRegistry'[n] = factoryRegistry[n]
  /\ op'.kind # "RegisterFactory" => factoryRegistry' = factoryRegistry
  /\ op'.kind \in {"Fill", "FillWithVariant"} =>
       /\ \A k \in DOMAIN calls' :
            /\ calls'[k].name \in DOMAIN factoryRegistry
            /\ calls'[k] = FactoryCall(calls'[k].name)
       /\ (/\ inputType' = "Fact" /\ input'[2] = Zero("CustomVO")
           /\ FactoryNameU \in DOMAIN factoryRegistry
           /\ FuncParams(factoryRegistry[FactoryNameU]) = <<>>) =>
            /\ Len(calls') >= 1
            /\ calls'[1] = FactoryCall(FactoryNameU)

\* C6: the callable a fill invokes for factory:<n> is the one most recently
\* registered under n; no operation removes an entry, and registering under
\* one name changes no entry under another name.
C6_LastWriteWins == [][C6_Step]_vars

\* a second registration under a name has replaced the callable of the first
C6_Witness ==
  /\ op.kind = "RegisterFactory"
  /\ op.prev \notin {NilFunc, op.fn}
  /\ factoryRegistry[op.name] = op.fn
  /\ \E n \in DOMAIN factoryRegistry : n # op.name

----------------------------------------------------------------------------
\* What the five checks, taken in their order, give for the directive
\* factory:<n>[:arg...] on a field of type ft: the error of the first check
\* that fails, whether the callable is invoked, and the value written.
FactoryChecks(n, args, ft) ==
  IF n \notin DOMAIN factoryRegistry
  THEN [err |-> ErrFactoryNotFound(n), invoked |-> FALSE, val |-> Zero(ft)]
  ELSE
    LET fn == factoryRegistry[n]
        params == FuncParams(fn)
        conv(i) == convertStringToType(args[i], params[i])
    IN
    IF Len(args) # Len(params)
    THEN [err |-> ErrFactoryArgCount(n, Len(params), Len(args)),
          invoked |-> FALSE, val |-> Zero(ft)]
    ELSE IF \E i \in 1..Len(args) : ~conv(i).ok
    THEN LET first == CHOOSE i \in 1..Len(args) :
                        /\ ~conv(i).ok
                        /\ \A j \in 1..(i - 1) : conv(j).ok
         IN  [err |-> ErrFactoryArgConvert(n, first - 1, conv(first).err),
              invoked |-> FALSE, val |-> Zero(ft)]
    ELSE
      LET out == FuncCall(fn, [i \in 1..Len(args) |-> conv(i).val]) IN
      IF out.panic
      THEN [err |-> ErrFactoryPanic(out.pval), invoked |-> TRUE, val |-> Zero(ft)]
      ELSE IF Len(out.results) # 1
      THEN [err |-> ErrFactoryReturnCount(n), invoked |-> TRUE, val |-> Zero(ft)]
      ELSE IF out.results[1].type # ft
      THEN [err |-> ErrFactoryReturnType(n, out.results[1].type, ft),
            invoked |-> TRUE, val |-> Zero(ft)]
      ELSE [err |-> NoError, invoked |-> TRUE, val |-> out.results[1].val]

\* the name and the arguments of the factory directive of field i of Fact
FactDirective(i) ==
  Split(TrimPrefix(ResolvedDirective(FactFields[i], variantArg), TagFactory), ":")

\* field i of Fact, zero on input and reached after the calls before, ends as
\* the checks e say; last tells that no field after it makes a call
FactFieldAsChecked(i, e, before, last) ==
  IF Len(e.err) > 0
  THEN /\ err = ErrSetField(FactFields[i].name, e.err)
       /\ work[i] = input[i]
       /\ calls = before \o (IF e.invoked
                             THEN <<FactoryCall(Head(FactDirective(i)))>>
                             ELSE <<>>)
  ELSE /\ work[i] = e.val
       /\ Len(calls) > Len(before)
       /\ SubSeq(calls, 1, Len(before) + 1) =
            before \o <<FactoryCall(Head(FactDirective(i)))>>
       /\ last => (Len(err) = 0 /\ Len(calls) = Len(before) + 1)

ValueChecks ==
  FactoryChecks(Head(FactDirective(2)), Tail(FactDirective(2)), "CustomVO")

WithArgsChecks ==
  FactoryChecks(Head(FactDirective(3)), Tail(FactDirective(3)), "CustomVO")

\* C7: for a zero field tagged factory:<name>[:arg...] the error returned is
\* that of the first failing check in the order not found, argument count,
\* argument conversion left to right, result count, result type; the callable
\* is invoked only when the first three pass and the field is written only
\* when all five pass.
C7_FactoryChecksInOrder ==
  (IsFill /\ inputType = "Fact") =>
    /\ ~panicked
    /\ IsZero(input[2], "CustomVO") =>
         FactFieldAsChecked(2, ValueChecks, <<>>, FALSE)
    /\ (/\ IsZero(input[3], "CustomVO")
        /\ (IsZero(input[2], "CustomVO") => Len(ValueChecks.err) = 0)) =>
         FactFieldAsChecked(
           3, WithArgsChecks,
           IF IsZero(input[2], "CustomVO")
           THEN <<FactoryCall(FactoryNameU)>> ELSE <<>>,
           TRUE)

\* both arguments fail to convert: the error is that of argument 0, and the
\* callable has not been invoked
C7_Witness ==
  /\ IsFill /\ inputType = "Fact"
  /\ ~IsZero(input[2], "CustomVO") /\ IsZero(input[3], "CustomVO")
  /\ FactoryNameV \in DOMAIN factoryRegistry
  /\ factoryRegistry[FactoryNameV] = "TwoInts"
  /\ variantArg = <<>>
  /\ Len(err) > 1 /\ err[2].fmt = "ErrFactoryArgConvert" /\ err[2].n1 = 0
  /\ calls = <<>> /\ work[3] = input[3]

----------------------------------------------------------------------------
PanickingCallMade == \E k \in DOMAIN calls : calls[k].fn = "PanicFactory"

\* the field whose directive names the callable called last
LastCalledField ==
  IF inputType \in DOMAIN TestStructs THEN Fields(inputType)[1].name
  ELSE IF calls[Len(calls)].name = FactoryNameU
  THEN FactFields[2].name ELSE FactFields[3].name

PanicError == ErrSetField(LastCalledField, ErrFactoryPanic(PanicText))

\* the frames the enclosing fill-tagged struct, slice element or map value put
\* before the error of the field
WrappedIn(outer) ==
  \/ outer = <<>>
  \/ \E f \in {WrapFields[i].name : i \in 1..Len(WrapFields)} :
       \/ outer = ErrNestedStruct(f, <<>>)
       \/ outer = ErrSetField(f, ErrSliceElem(0, <<>>))
       \/ outer = ErrSetField(f, ErrMapValue(<<"k">>, <<>>))

\* C8: when the callable invoked for a factory directive panics, Fill and
\* FillWithVariant do not panic: they return T's zero value and an error that
\* ends with "testfill: failed to set field <F>: factory function panicked:
\* <panic value>"; for a field of T itself that is the whole error, and for a
\* field inside a fill-tagged nested struct or a generated slice or map
\* element it is wrapped in the error of each enclosing level.
C8_PanicBecomesError ==
  (IsFill /\ PanickingCallMade) =>
    /\ ~panicked
    /\ result = Zero(inputType)
    /\ Len(err) >= Len(PanicError)
    /\ SubSeq(err, Len(err) - Len(PanicError) + 1, Len(err)) = PanicError
    /\ WrappedIn(SubSeq(err, 1, Len(err) - Len(PanicError)))
    /\ (inputType = "Fact" => err = PanicError)
    /\ (inputType = "Wrap" => err # PanicError)

\* the callable panics for the element of a generated slice
C8_Witness ==
  /\ IsFill /\ PanickingCallMade /\ inputType = "Wrap"
  /\ ~panicked /\ result = Zero("Wrap")
  /\ err = ErrSetField("Facts", ErrSliceElem(0, PanicError))

\* C8 as stated: the error is "testfill: failed to set field <F>: factory
\* function panicked: <panic value>", at whatever depth the field lies.
C8_AsStated ==
  (IsFill /\ PanickingCallMade) =>
    /\ ~panicked
    /\ result = Zero(inputType)
    /\ err = PanicError

----------------------------------------------------------------------------
----------------------------------------------------------------------------
\* out is in after the fill-tagged fields were recursed into with variant: a
\* nil pointer points to a cell the caller did not have, a non-nil one to the
\* cell it pointed to; below them the zero fields with a literal directive
\* hold its converted text and the non-zero ones their input value.
RECURSIVE Recursed(_, _, _, _, _, _)
Recursed(t, in, out, variant, hIn, hOut) ==
  \A i \in 1..Len(Fields(t)) :
    LET f   == Fields(t)[i]
        tag == ResolvedDirective(f, variant)
    IN
    f.exported =>
      IF tag = TagFill /\ Kind(f.type) = "struct"
      THEN Recursed(f.type, in[i], out[i], variant, hIn, hOut)
      ELSE IF tag = TagFill /\ Kind(f.type) = "ptr"
      THEN /\ out[i] \in DOMAIN hOut
           /\ IF in[i] = 0
              THEN /\ out[i] \notin DOMAIN hIn
                   /\ Recursed(TypeInfo(f.type).elem, Zero(TypeInfo(f.type).elem),
                               hOut[out[i]], variant, hIn, hOut)
              ELSE /\ out[i] = in[i]
                   /\ Recursed(TypeInfo(f.type).elem, hIn[in[i]],
                               hOut[out[i]], variant, hIn, hOut)
      ELSE IF Kind(f.type) \in ScalarKinds /\ IsLiteral(tag)
      THEN out[i] = IF IsZero(in[i], f.type)
                    THEN convertStringToType(tag, f.type).val
                    ELSE in[i]
      ELSE TRUE

\* C10: a field tagged exactly fill whose type is a struct or a pointer to
\* struct is recursed into whether or not it is zero: a nil pointer is
\* replaced by a newly allocated struct, the zero tagged sub-fields are
\* filled and the non-zero ones kept, with the variant of the enclosing fill
\* at every depth.
C10_NestedFillRecursion ==
  (Succeeded /\ OfStruct) =>
    Recursed(inputType, input, result, variantArg, callerHeap, heap)

\* variant a, two levels down: the nil DeeplyNestedPtr points to a new Baz
\* whose Value has the testfill_a value and whose nil PtrBar points to a new
\* Bar with the testfill_a String, while the non-zero Value of the nested Baz
\* is kept
C10_Witness ==
  /\ Succeeded /\ inputType = "Deep" /\ variantArg = VariantA
  /\ input[3] = 0 /\ result[3] \in DOMAIN heap
  /\ heap[result[3]][1] = 200
  /\ heap[result[3]][3] \in DOMAIN heap
  /\ heap[heap[result[3]][3]][2] = <<"p">>
  /\ input[2][1] # 0 /\ result[2][1] = input[2][1]

-----------------------------------------------------------------------------
\* Whether the fields that are unexported or resolve to no directive hold in
\* out (read in the heap after the call) what they hold in in (read in the
\* caller's heap), in t and in the structs reached through fill-tagged fields.
RECURSIVE UnfilledKept(_, _, _, _)
UnfilledKept(t, in, out, variant) ==
  \A i \in 1..Len(Fields(t)) :
    LET f == Fields(t)[i]
        d == ResolvedDirective(f, variant)
    IN
    IF ~f.exported \/ d = <<>> THEN out[i] = in[i]
    ELSE IF d # TagFill THEN TRUE
    ELSE IF Kind(f.type) = "struct"
      THEN UnfilledKept(f.type, in[i], out[i], variant)
    ELSE IF Kind(f.type) = "ptr" /\ in[i] # 0
      THEN /\ out[i] = in[i]
           /\ UnfilledKept(TypeInfo(f.type).elem, callerHeap[in[i]],
                           heap[out[i]], variant)
    ELSE TRUE

\* C11: a field that is unexported, or that has neither a testfill tag nor a
\* tag of the requested variant, holds after Fill or FillWithVariant what it
\* held on input: in the working copy whatever the outcome, and in the value
\* returned without error.  This covers an untagged nested struct, an untagged
\* pointer and an untagged embedded struct whose own fields are tagged.
C11_UnfilledFieldsKept ==
  (Returned /\ OfStruct) =>
    /\ UnfilledKept(inputType, input, work, variantArg)
    /\ Len(err) = 0 => UnfilledKept(inputType, input, result, variantArg)

\* the tagged unexported field and the untagged one are as the caller set them
\* while the exported fields are filled
C11_Witness ==
  /\ Succeeded /\ inputType = "MixedFieldStruct"
  /\ input = <<<<>>, MaxInt, FALSE, <<"c">>>>
  /\ result = <<<<"v">>, MaxInt, TRUE, <<"c">>>>

-----------------------------------------------------------------------------
\* a fresh struct of type t, whose tagged fields are scalars with literal
\* directives, filled with the variant: each field converted from the
\* directive the variant resolves to
FreshFilled(t, variant) ==
  [i \in 1..Len(Fields(t)) |->
     convertStringToType(ResolvedDirective(Fields(t)[i], variant),
                         Fields(t)[i].type).val]

\* the names a variants: directive lists, trimmed
ListedVariants(tag) ==
  LET raw == Split(TrimPrefix(tag, TagVariant), ",") IN
  [i \in 1..Len(raw) |-> TrimSpace(raw[i])]

\* the exported fields of the input type that are nil slices of Bar on input
\* and whose directive has the prefix
NilBarSlices(prefix) ==
  { i \in 1..Len(Fields(inputType)) :
      /\ Fields(inputType)[i].exported
      /\ Fields(inputType)[i].type = "[]Bar"
      /\ HasPrefix(ResolvedDirective(Fields(inputType)[i], variantArg), prefix)
      /\ input[i].nil }

\* C12: a nil []Struct field tagged variants:<v1>,...,<vk> is set to a slice of
\* exactly k elements, element i being a fresh struct filled with the variant
\* named v_i with surrounding whitespace trimmed, in the listed order; a name
\* that no field declares gives a default-filled element and no error.
C12_VariantSlice ==
  (Returned /\ OfStruct) =>
    \A i \in NilBarSlices(TagVariant) :
      LET names == ListedVariants(ResolvedDirective(Fields(inputType)[i],
                                                    variantArg))
      IN  /\ Len(err) = 0
          /\ ~result[i].nil
          /\ Len(result[i].elems) = Len(names)
          /\ \A j \in 1..Len(names) :
               result[i].elems[j] = FreshFilled("Bar", names[j])

\* "variants: a ,z, a" gives three elements: String from testfill_a, the
\* default for the undeclared z, and testfill_a again
C12_Witness ==
  /\ Succeeded /\ inputType = "Team" /\ input[1].nil
  /\ result[1].elems = << <<42, <<"p">>>>, <<42, <<"o">>>>, <<42, <<"p">>>> >>

-----------------------------------------------------------------------------
\* the count a fill:<N> directive gives
ListedCount(tag) == Atoi(TrimPrefix(tag, TagFillCount))

\* C13: a nil []Struct field tagged fill:<N> with N >= 0 is set to a slice of
\* exactly N elements, each a fresh struct filled with the default variant,
\* also when the enclosing struct is filled by FillWithVariant with a
\* non-empty variant.
C13_CountedSlice ==
  (Returned /\ OfStruct) =>
    \A i \in NilBarSlices(TagFillCount) :
      LET n == ListedCount(ResolvedDirective(Fields(inputType)[i], variantArg))
      IN  (n.ok /\ n.val >= 0) =>
            /\ Len(err) = 0
            /\ ~result[i].nil
            /\ Len(result[i].elems) = n.val
            /\ \A j \in 1..n.val : result[i].elems[j] = FreshFilled("Bar", <<>>)

\* FillWithVariant(Coll{}, "a"): the two Items have the default String although
\* Bar declares testfill_a for it
C13_Witness ==
  /\ Succeeded /\ inputType = "Coll" /\ variantArg = VariantA /\ input[3].nil
  /\ result[3] = MakeSlice(<< <<42, <<"o">>>>, <<42, <<"o">>>> >>)

\* fill:0 gives a slice that is empty and not nil
C13_WitnessEmpty ==
  /\ Succeeded /\ inputType = "EmptyStructSlice"
  /\ result[1] = MakeSlice(<<>>)

-----------------------------------------------------------------------------
\* the exported fields of the input type of the given kind, with elements
\* (and keys) of scalar type, that are nil on input and have a literal directive
NilScalarFields(kind) ==
  { i \in 1..Len(Fields(inputType)) :
      LET f == Fields(inputType)[i] IN
      /\ f.exported /\ Kind(f.type) = kind
      /\ Kind(TypeInfo(f.type).elem) \in ScalarKinds
      /\ IsLiteral(ResolvedDirective(f, variantArg))
      /\ input[i].nil }

\* C14: a nil slice field of scalar element type tagged with a comma-separated
\* list is set to one element per part, in order, each part trimmed and
\* converted to the element type; when a part fails conversion the call
\* returns T's zero value with "testfill: failed to set field <F>: unsupported
\* slice element type <kind>" and the field of the working copy is still nil.
C14_ScalarSlice ==
  (Returned /\ OfStruct) =>
    \A i \in NilScalarFields("slice") :
      LET f == Fields(inputType)[i]
          elemType == TypeInfo(f.type).elem
          parts == Split(ResolvedDirective(f, variantArg), ",")
          conv(j) == convertStringToType(TrimSpace(parts[j]), elemType)
      IN  IF \A j \in 1..Len(parts) : conv(j).ok
          THEN /\ Len(err) = 0
               /\ result[i] = MakeSlice([j \in 1..Len(parts) |-> conv(j).val])
          ELSE /\ err = ErrSetField(f.name,
                                    ErrUnsupportedSliceType(Kind(elemType)))
               /\ result = Zero(inputType)
               /\ work[i] = NilSlice

\* []int tagged "1,x,3": the second part is not an int
C14_Witness ==
  /\ Returned /\ inputType = "InvalidIntSlice" /\ input[1].nil
  /\ err = ErrSetField("Value", ErrUnsupportedSliceType("int"))
  /\ result = <<NilSlice>> /\ work = <<NilSlice>>

\* []int tagged "1, 2" gives the two ints
C14_WitnessConverted ==
  /\ Succeeded /\ inputType = "ArrayOfInt" /\ input[1].nil
  /\ result[1] = MakeSlice(<<1, 2>>)

-----------------------------------------------------------------------------
\* the least element of a non-empty set of naturals
Least(S) == CHOOSE x \in S : \A y \in S : x <= y

\* C15: for a nil map field with scalar key and value types the pairs of the
\* comma-separated directive are taken in order.  The first pair that does
\* not split on ':' into exactly two parts makes the call fail with "invalid
\* map format: <pair>", the pair quoted as written; the first pair whose key
\* or value fails conversion makes it fail with "unsupported map type <K> ->
\* <V>"; either error is wrapped in "testfill: failed to set field <F>: " and
\* T's zero value is returned.  Otherwise the field is set to a map holding
\* exactly the converted pairs, a later pair overwriting an earlier one with
\* the same key.
C15_ScalarMap ==
  (Returned /\ OfStruct) =>
    \A i \in NilScalarFields("map") :
      LET f == Fields(inputType)[i]
          K == TypeInfo(f.type).key
          V == TypeInfo(f.type).elem
          pairs == Split(ResolvedDirective(f, variantArg), ",")
          kv(j) == Split(TrimSpace(pairs[j]), ":")
          key(j) == convertStringToType(TrimSpace(kv(j)[1]), K)
          value(j) == convertStringToType(TrimSpace(kv(j)[2]), V)
          malformed(j) == Len(kv(j)) # 2
          offending == { j \in 1..Len(pairs) :
                           malformed(j) \/ ~key(j).ok \/ ~value(j).ok }
      IN  IF offending = {}
          THEN /\ Len(err) = 0
               /\ ~result[i].nil
               /\ DOMAIN result[i].m = { key(j).val : j \in 1..Len(pairs) }
               /\ \A j \in 1..Len(pairs) :
                    (\A l \in (j + 1)..Len(pairs) : key(l).val # key(j).val)
                      => result[i].m[key(j).val] = value(j).val
          ELSE /\ result = Zero(inputType)
               /\ work[i] = NilMap
               /\ err = ErrSetField(f.name,
                          IF malformed(Least(offending))
                          THEN ErrInvalidMapFormat(pairs[Least(offending)])
                          ELSE ErrUnsupportedMapType(Kind(K), Kind(V)))

\* map[string]int tagged "k:1,j:3,k:2": two entries, k holding the later 2
C15_Witness ==
  /\ Succeeded /\ inputType = "StringIntMapTest" /\ input[1].nil
  /\ DOMAIN result[1].m = {<<"k">>, <<"j">>}
  /\ result[1].m[<<"k">>] = 2 /\ result[1].m[<<"j">>] = 3

\* map[string]string tagged "k:v, j": the error quotes the pair with its
\* leading space
C15_WitnessMalformed ==
  /\ Returned /\ inputType = "LateInvalidMap"
  /\ err = ErrSetField("Value", ErrInvalidMapFormat(<<" ","j">>))
  /\ result = <<NilMap>>

\* map[string]int tagged "k:x,j": the value of the first pair fails
\* conversion before the malformed second pair is looked at
C15_WitnessUnconverted ==
  /\ Returned /\ inputType = "InvalidValueMap"
  /\ err = ErrSetField("Value", ErrUnsupportedMapType("string", "int"))
  /\ result = <<NilMap>>

-----------------------------------------------------------------------------
\* the exported map fields of the input type with values of type Bar that are
\* nil on input and have a literal directive
NilBarMaps ==
  { i \in 1..Len(Fields(inputType)) :
      LET f == Fields(inputType)[i] IN
      /\ f.exported /\ Kind(f.type) = "map" /\ TypeInfo(f.type).elem = "Bar"
      /\ IsLiteral(ResolvedDirective(f, variantArg))
      /\ input[i].nil }

\* the field is set to the map of the listed keys, each holding a fresh Bar
\* filled with the variant listed last for the key
StructMapIs(mv, n, key(_), variant(_)) ==
  /\ ~mv.nil
  /\ DOMAIN mv.m = { key(j) : j \in 1..n }
  /\ \A j \in 1..n :
       (\A l \in (j + 1)..n : key(l) # key(j))
         => mv.m[key(j)] = FreshFilled("Bar", variant(j))

C16_WitnessPairs ==
  /\ Succeeded /\ inputType = "SameKeyStructMap" /\ input[1].nil
  /\ DOMAIN result[1].m = {<<"k">>}
  /\ result[1].m[<<"k">>] = <<42, <<"p">>>>

\* map[int]Bar tagged "variants:1=a"
C16_WitnessKeyType ==
  /\ Returned /\ inputType = "IntKeyDirectory"
  /\ err = ErrSetField("Users", ErrUnsupportedMapType("int", "struct"))
  /\ result = <<NilMap>>

\* "variants:k=a,j,q=a"
C16_WitnessEntry ==
  /\ Returned /\ inputType = "InvalidDirectory"
  /\ err = ErrSetField("Users", ErrKeyVariantFormat(<<"j">>))
  /\ result = <<NilMap>>

\* "kf,j:fill"
C16_WitnessPair ==
  /\ Returned /\ inputType = "InvalidFormatStructMap"
  /\ err = ErrSetField("Value", ErrInvalidMapFormat(<<"k","f">>))
  /\ result = <<NilMap>>

-----------------------------------------------------------------------------
\* the exported fields of the input type of one of the kinds that are zero
\* on input
ZeroFieldsOfKind(kinds) ==
  { i \in 1..Len(Fields(inputType)) :
      /\ Fields(inputType)[i].exported
      /\ Kind(Fields(inputType)[i].type) \in kinds
      /\ IsZero(input[i], Fields(inputType)[i].type) }

\* C17: a nil interface field whose directive is not an unmarshal: directive
\* (a literal, a list, pairs, or a factory: directive) is nil in the working
\* copy and in the value returned: only unmarshal: populates an interface
\* field.
C17_InterfaceOnlyByUnmarshal ==
  (Returned /\ OfStruct) =>
    \A i \in ZeroFieldsOfKind({"interface"}) :
      ~HasPrefix(ResolvedDirective(Fields(inputType)[i], variantArg),
                 TagUnmarshal)
        => work[i] = NilInterface /\ result[i] = NilInterface

\* the part of C17 that the default branch of setFieldValue gives: a literal,
\* a list or pairs on a nil interface field store nothing and fail with
\* "unsupported field type interface"
InterfaceLiteralFails ==
  (Returned /\ OfStruct) =>
    \A i \in ZeroFieldsOfKind({"interface"}) :
      IsLiteral(ResolvedDirective(Fields(inputType)[i], variantArg))
        => /\ work[i] = NilInterface /\ result = Zero(inputType)
           /\ err = ErrSetField(Fields(inputType)[i].name,
                                ErrUnsupportedField("interface"))

\* factory:U with U registered as NewCustomVO: the CustomVO the callable
\* returned is stored in the interface field and no error is returned
InterfaceFilledByFactory ==
  /\ Succeeded /\ inputType = "InterfaceFactory" /\ input = <<NilInterface>>
  /\ result = << MakeInterface("CustomVO", << <<"f">> >>) >>

-----------------------------------------------------------------------------
UnsupportedKinds == {"chan", "func", "interface"}

\* the exported fields of the input type of a kind no setter handles
UnsupportedFields ==
  { i \in 1..Len(Fields(inputType)) :
      /\ Fields(inputType)[i].exported
      /\ Kind(Fields(inputType)[i].type) \in UnsupportedKinds }

UnsupportedFieldError(i) ==
  ErrSetField(Fields(inputType)[i].name,
              ErrUnsupportedField(Kind(Fields(inputType)[i].type)))

C18_WitnessKept ==
  /\ Succeeded /\ inputType = "InterfaceStruct"
  /\ input = <<MakeInterface("int", MaxInt), 1, 1,
               MakeInterface("int", MaxInt), 1, 1>>
  /\ result = input

-----------------------------------------------------------------------------
\* the exported fields of the input type that are zero on input and have an
\* unmarshal: directive
ZeroUnmarshalFields ==
  { i \in 1..Len(Fields(inputType)) :
      /\ Fields(inputType)[i].exported
      /\ HasPrefix(ResolvedDirective(Fields(inputType)[i], variantArg),
                   TagUnmarshal)
      /\ IsZero(input[i], Fields(inputType)[i].type) }

\* the text after unmarshal: of field i
JSONText(i) ==
  TrimPrefix(ResolvedDirective(Fields(inputType)[i], variantArg), TagUnmarshal)

\* the text of field i decoded into a zero value of the field's type, or of
\* the type it points to
Decoded(i) ==
  LET t == Fields(inputType)[i].type
      target == IF Kind(t) = "ptr" THEN TypeInfo(t).elem ELSE t
  IN  unmarshalJSONValue(Zero(target), target, JSONText(i))

\* the nil pointer fields among them whose text is not exactly null
PointeesMade ==
  { i \in ZeroUnmarshalFields :
      Kind(Fields(inputType)[i].type) = "ptr" /\ JSONText(i) # JSONNull }

\* C19: for a nil pointer field tagged unmarshal:<text>, the text null leaves
\* the field nil and allocates nothing; any other text makes the field point
\* to a newly allocated pointee decoded from the text.  For a field of any
\* kind, a text that fails to decode makes the call return T's zero value and
\* "testfill: failed to set field <F>: failed to unmarshal JSON: <decode
\* error>".
C19_UnmarshalPointer ==
  (Returned /\ OfStruct) =>
    /\ \A i \in ZeroUnmarshalFields :
         LET f == Fields(inputType)[i] IN
         IF ~Decoded(i).ok /\ (Kind(f.type) = "ptr" => JSONText(i) # JSONNull)
         THEN /\ err = ErrSetField(f.name, Decoded(i).err)
              /\ err[2].fmt = "ErrJSONUnmarshal"
              /\ result = Zero(inputType)
         ELSE /\ Len(err) = 0
              /\ IF Kind(f.type) # "ptr" THEN result[i] = Decoded(i).val
                 ELSE IF JSONText(i) = JSONNull THEN result[i] = 0
                 ELSE /\ result[i] \in DOMAIN heap
                      /\ result[i] \notin DOMAIN callerHeap
                      /\ heap[result[i]] = Decoded(i).val
    \* no field of these structs allocates in another way
    /\ (inputType \in DOMAIN JSONTests /\ Len(err) = 0) =>
         /\ Len(heap) = Len(callerHeap) + Cardinality(PointeesMade)
         /\ \A i, j \in PointeesMade : i # j => result[i] # result[j]

\* TestJSON{}: StringPtr points to a new cell holding "h", NullPtr is nil,
\* and that one cell is all that was allocated
C19_Witness ==
  /\ Succeeded /\ inputType = "TestJSON" /\ input = Zero("TestJSON")
  /\ callerHeap = <<>> /\ heap = << <<"h">> >>
  /\ result[4] = 1 /\ result[5] = 0

\* a *string tagged unmarshal:7: the number does not decode into a string
C19_WitnessFailure ==
  /\ Returned /\ inputType = "InvalidPtrJSON" /\ input = <<0>>
  /\ Len(err) = 2 /\ err[1] = ErrSetField("Value", <<>>)[1]
  /\ err[2].fmt = "ErrJSONUnmarshal"
  /\ result = <<0>>

-----------------------------------------------------------------------------
\* Whether every exported field of v (of type t, read in heap h) that the
\* variant resolves to a directive is non-zero, in v and in every struct
\* reached from it through a fill-tagged field.
RECURSIVE FullyFilled(_, _, _, _)
FullyFilled(t, v, h, variant) ==
  \A i \in 1..Len(Fields(t)) :
    LET f == Fields(t)[i]
        d == ResolvedDirective(f, variant)
    IN
    (f.exported /\ d # <<>>) =>
      /\ ~IsZero(v[i], f.type)
      /\ (d = TagFill /\ Kind(f.type) = "struct")
           => FullyFilled(f.type, v[i], h, variant)
      /\ (d = TagFill /\ Kind(f.type) = "ptr")
           => FullyFilled(TypeInfo(f.type).elem, h[v[i]], h, variant)

\* C20: when every tagged exported field of a struct input holds a non-zero
\* value, in the input and in every struct reached from it through fields
\* tagged fill, Fill and FillWithVariant return a value equal to the input and
\* a nil error, call no factory and leave the pointed-to structs as they were.
C20_FilledInputReturned ==
  (IsFill /\ OfStruct /\ FullyFilled(inputType, input, callerHeap, variantArg))
    => /\ ~panicked /\ Len(err) = 0
       /\ result = input
       /\ heap = callerHeap
       /\ calls = <<>>

\* a Foo whose Integer, nested Bar and pointed-to Bar are set in full
C20_Witness ==
  /\ Succeeded /\ inputType = "Foo" /\ op.kind = "Fill"
  /\ input = <<MaxInt, <<MaxInt, <<"c">>>>, 1, 0, 0>>
  /\ callerHeap = << <<MaxInt, <<"c">>>> >>
  /\ result = input /\ heap = callerHeap

\* C20 as stated: when every tagged exported field of the input holds a
\* non-zero value, Fill returns a value equal to the input and a nil error.
C20_AsStated ==
  (/\ Returned /\ OfStruct /\ op.kind = "Fill"
   /\ \A i \in 1..Len(Fields(inputType)) :
        (Fields(inputType)[i].exported /\ Fields(inputType)[i].tag # <<>>)
          => ~IsZero(input[i], Fields(inputType)[i].type))
    => /\ Len(err) = 0
       /\ result = input

\* every tagged field of the Foo is non-zero, yet the empty String of its
\* nested Bar is filled
C20_PartialNestedFilled ==
  /\ Succeeded /\ inputType = "Foo" /\ op.kind = "Fill"
  /\ input = <<MaxInt, <<MaxInt, <<>>>>, 1, 0, 0>>
  /\ result[2] = <<MaxInt, <<"o">>>>

-----------------------------------------------------------------------------
\* the outcome of field i of t taken alone, as the loop reaches it
FieldOutcome(t, in, variant, i) ==
  LET f == Fields(t)[i]
      d == getTagValueForVariant(f, variant)
  IN
  IF ~f.exported THEN OK(in[i], callerHeap, <<>>)
  ELSE IF d = TagFill
  THEN handleNestedFillWithVariant(in[i], f, variant, callerHeap, <<>>)
  ELSE IF d = <<>> \/ ~isZeroValue(in[i], f.type)
  THEN OK(in[i], callerHeap, <<>>)
  ELSE setFieldValue(in[i], f.type, d, callerHeap, <<>>)

\* Whether e is the error of the first field of t that fails, wrapped with
\* the name of that field in the format of its directive, the fields after it
\* being in out as they are in in; for a fill-tagged field the rest of e is
\* the same one level down.
RECURSIVE StoppedAtFirstFailure(_, _, _, _, _)
StoppedAtFirstFailure(t, in, out, e, variant) ==
  \E i \in 1..Len(Fields(t)) :
    LET f == Fields(t)[i]
        d == getTagValueForVariant(f, variant)
    IN
    /\ Len(e) > 1
    /\ \A j \in 1..(i - 1) : ~Failed(FieldOutcome(t, in, variant, j))
    /\ Failed(FieldOutcome(t, in, variant, i))
    /\ \A j \in (i + 1)..Len(Fields(t)) : out[j] = in[j]
    /\ IF d = TagFill /\ Kind(f.type) = "struct"
       THEN /\ e[1] = ErrNestedStruct(f.name, <<>>)[1]
            /\ StoppedAtFirstFailure(f.type, in[i], out[i], Tail(e), variant)
       ELSE IF d = TagFill
       THEN /\ e[1] = ErrNestedStructPtr(f.name, <<>>)[1]
            /\ out[i] \in DOMAIN heap
            /\ StoppedAtFirstFailure(
                 TypeInfo(f.type).elem,
                 IF in[i] = 0 THEN Zero(TypeInfo(f.type).elem)
                 ELSE callerHeap[in[i]],
                 heap[out[i]], Tail(e), variant)
       ELSE /\ e[1] = ErrSetField(f.name, <<>>)[1]
            /\ Tail(e) = FieldOutcome(t, in, variant, i).err

\* C22: the fields are processed in declaration order, depth-first; a Fill
\* that returns an error stopped at the first field whose fill fails and
\* returns the error of that field alone, wrapped once per enclosing level
\* with the name of the field: failed to set field for a setter, failed to
\* fill nested struct for a fill-tagged struct, failed to fill nested struct
\* pointer for a fill-tagged pointer; the fields declared after the failing
\* one are in the working copy as they were on input, at every level.
C22_FirstFailureOnly ==
  (Returned /\ OfStruct /\ Len(err) > 0) =>
    StoppedAtFirstFailure(inputType, input, work, err, variantArg)

\* the second field of the struct a fill-tagged pointer points to fails after
\* its first field was set, and After, which has a directive, is not visited
C22_Witness ==
  /\ Returned /\ inputType = "ContainerWithError"
  /\ input = <<0, 0>> /\ work[2] = 0 /\ heap[work[1]][1] = 1
  /\ err[1] = ErrNestedStructPtr("NestedPtr", <<>>)[1]
  /\ err[2] = ErrSetField("Value", <<>>)[1]
  /\ Len(err) = 3

\* the same through a fill-tagged struct
C22_WitnessStruct ==
  /\ Returned /\ inputType = "InvalidNestedJSON"
  /\ work = << <<1, 0>>, 0 >>
  /\ err[1] = ErrNestedStruct("Inner", <<>>)[1]
  /\ err[2] = ErrSetField("Value", <<>>)[1]

\* the second factory field fails after the first one was set by its callable
C22_WitnessSetter ==
  /\ Returned /\ inputType = "Fact" /\ input = Zero("Fact")
  /\ Len(calls) = 1 /\ work[2] # Zero("CustomVO") /\ work[4] = 0
  /\ err[1] = ErrSetField("WithArgs", <<>>)[1]

-----------------------------------------------------------------------------
\* Whether s is a non-negative base-10 integer: digits, at least one
IsCount(s) == Len(s) > 0 /\ \A k \in 1..Len(s) : s[k] \in DigitChars

\* the calls on a struct of the slice tests whose nil []Struct field has a
\* fill:<N> directive with N not a count
BadCountCall ==
  /\ IsFill /\ inputType \in DOMAIN SliceTests
  /\ Kind(TypeInfo(Fields(inputType)[1].type).elem) = "struct"
  /\ HasPrefix(Fields(inputType)[1].tag, TagFillCount)
  /\ ~IsCount(TrimPrefix(Fields(inputType)[1].tag, TagFillCount))
  /\ input[1].nil

\* C23: for a []Struct field tagged fill:<N>, every N that is not a
\* non-negative base-10 integer (text that is no number, no text, a negative
\* number) makes Fill return the zero value of T with "testfill: failed to set
\* field <F>: invalid slice count format: fill:<N>", and Fill does not panic.
C23_BadCountIsError ==
  BadCountCall =>
    /\ ~panicked
    /\ result = Zero(inputType)
    /\ err = ErrSetField(Fields(inputType)[1].name,
                         ErrSliceCount(Fields(inputType)[1].tag))

\* what holds of C23: an N that strconv.Atoi rejects gives the error
C23_UnparsedCountIsError ==
  (BadCountCall /\ ~Atoi(TrimPrefix(Fields(inputType)[1].tag, TagFillCount)).ok) =>
    /\ ~panicked
    /\ result = Zero(inputType)
    /\ err = ErrSetField(Fields(inputType)[1].name,
                         ErrSliceCount(Fields(inputType)[1].tag))

\* fill: without a count
C23_WitnessNoCount ==
  /\ Returned /\ inputType = "NoCountStructSlice"
  /\ err = ErrSetField("Value", ErrSliceCount(TagFillCount))

\* fill:-1 panics in reflect.MakeSlice
C23_NegativeCountPanics ==
  /\ IsFill /\ inputType = "NegativeStructSlice" /\ panicked

-----------------------------------------------------------------------------
\* the nil []Bar fields whose directive is variants: with nothing listed
EmptyVariantLists ==
  { i \in NilBarSlices(TagVariant) :
      ResolvedDirective(Fields(inputType)[i], variantArg) = TagVariant }

\* C24: a nil []Struct field tagged variants: with nothing after the colon is
\* set to a slice of one element, a fresh struct filled with the default
\* variant: splitting the empty list gives one empty name.
C24_EmptyVariantList ==
  (IsFill /\ OfStruct) =>
    \A i \in EmptyVariantLists :
      /\ Succeeded
      /\ result[i] = MakeSlice(<< FreshFilled("Bar", <<>>) >>)

\* Fill(EmptyVariants{}) returns one Bar with the default values
C24_Witness ==
  /\ Succeeded /\ inputType = "EmptyVariants" /\ input[1].nil
  /\ result[1] = MakeSlice(<< <<42, <<"o">>>> >>)

\* C24 as stated: the result is a slice with zero elements.
C24_AsStated ==
  (Succeeded /\ OfStruct) =>
    \A i \in EmptyVariantLists : Len(result[i].elems) = 0

-----------------------------------------------------------------------------
\* the exported []Bar fields with a variants: directive that hold at least
\* one element on input
FilledBarSlices ==
  { i \in 1..Len(Fields(inputType)) :
      /\ Fields(inputType)[i].exported
      /\ Fields(inputType)[i].type = "[]Bar"
      /\ HasPrefix(ResolvedDirective(Fields(inputType)[i], variantArg),
                   TagVariant)
      /\ Len(input[i].elems) > 0 }

-----------------------------------------------------------------------------
\* Whether the slice or map v of type t holds no element
IsEmptyCollection(v, t) ==
  IF Kind(t) = "slice" THEN Len(v.elems) = 0 ELSE DOMAIN v.m = {}

\* the exported slice and map fields with a directive that hold on input a
\* collection that is empty and not nil
EmptyCollections ==
  { i \in 1..Len(Fields(inputType)) :
      LET f == Fields(inputType)[i] IN
      /\ f.exported /\ Kind(f.type) \in {"slice", "map"}
      /\ ResolvedDirective(f, variantArg) # <<>>
      /\ ~input[i].nil /\ IsEmptyCollection(input[i], f.type) }

\* C26: a slice or map field holding an empty but non-nil collection does not
\* count as zero-valued (only nil does): Fill leaves it empty and non-nil, in
\* the working copy and in the value returned, whatever its directive.
C26_EmptyCollectionKept ==
  (Returned /\ OfStruct) =>
    \A i \in EmptyCollections :
      /\ ~isZeroValue(input[i], Fields(inputType)[i].type)
      /\ ~work[i].nil
      /\ IsEmptyCollection(work[i], Fields(inputType)[i].type)
      /\ Len(err) = 0 => result[i] = work[i]

\* Coll.ArrayOfString, tagged "x, y", given as an empty slice, and
\* Coll.MapOfString, tagged "k:v,j:w", given as an empty map, come back empty
\* while the nil Users beside them is generated
C26_Witness ==
  /\ Succeeded /\ inputType = "Coll"
  /\ input[1] = MakeSlice(<<>>) /\ result[1] = MakeSlice(<<>>)
  /\ input[4] = MakeMap /\ result[4] = MakeMap
  /\ input[2].nil /\ Len(result[2].elems) = 2

\* C26 as stated: the empty collection is replaced by the value built from
\* the directive.
C26_AsStated ==
  (Succeeded /\ inputType = "Coll") =>
    /\ input[1] = MakeSlice(<<>>) =>
         result[1] = MakeSlice(<< <<"x">>, <<"y">> >>)
    /\ input[4] = MakeMap => DOMAIN result[4].m = {<<"k">>, <<"j">>}

-----------------------------------------------------------------------------
\* a <= b for the digits of two numbers written without leading zeros
NotAbove(a, b) ==
  \/ Len(a) < Len(b)
  \/ /\ Len(a) = Len(b)
     /\ \A k \in 1..Len(a) :
          (\A j \in 1..(k - 1) : a[j] = b[j]) => DigitVal(a[k]) <= DigitVal(b[k])

\* Whether the number the base-10 literal lit writes lies in the range of
\* the integer kind k
WithinRange(lit, k) ==
  IF Head(lit) = "-"
  THEN k \in IntKinds /\ NotAbove(Tail(lit), MinSignedMagnitude(BitSize(k)))
  ELSE NotAbove(lit, IF k \in IntKinds THEN MaxSigned(BitSize(k))
                     ELSE MaxUnsigned(BitSize(k)))

\* the number lit writes
NumberOf(lit) ==
  IF Head(lit) = "-" THEN 0 - DigitsValue(Tail(lit), 0) ELSE DigitsValue(lit, 0)

C27_WitnessExact ==
  /\ Succeeded /\ inputType = "Int8Test" /\ result = <<127, 0 - 128>>

\* -1 for uint8 is a syntax error of strconv.ParseUint, not 255
C27_WitnessNegative ==
  /\ Returned /\ inputType = "Uint8Under" /\ result = <<0>>
  /\ err = ErrSetField("Value", ErrStringConvert(<<"-","1">>, "uint8", "syntax"))

\* one above the range of uint64
C27_WitnessWide ==
  /\ Returned /\ inputType = "Uint64Over" /\ result = <<0>>
  /\ Len(err) = 3 /\ err[3].s1 = "range"

-----------------------------------------------------------------------------
\* how many times the callable registered under name n was invoked
TimesCalled(n) == Cardinality({ k \in DOMAIN calls : calls[k].name = n })

\* Whether the fill stopped at a field of the input type declared before
\* field i
FailedBefore(i) ==
  /\ Len(err) > 0
  /\ \E j \in 1..(i - 1) : err[1].s1 = Fields(inputType)[j].name

\* 1 if b, else 0
Count(b) == IF b THEN 1 ELSE 0

\* C29: a registered callable is invoked at most once per factory-tagged
\* field per fill, never for a field that is non-zero on input and never for
\* a field declared after the first failing field.  For Fact that is at most
\* one call per factory field; for Wrap, which reaches a Fact through its
\* fill-tagged Inner, through the one generated element of Facts and through
\* the one generated value of FactMap, at most one call per factory field of
\* each Fact reached.
C29_FactoryCalledOnce ==
  IsFill =>
    /\ inputType = "Fact" =>
         \A i \in {2, 3} :
           LET n == Head(FactDirective(i)) IN
           /\ TimesCalled(n) <= 1
           /\ ~IsZero(input[i], FactFields[i].type) => TimesCalled(n) = 0
           /\ FailedBefore(i) => TimesCalled(n) = 0
    /\ inputType = "Wrap" =>
         \A i \in {2, 3} :
           LET n == Head(FactDirective(i)) IN
           TimesCalled(n) <=
             Count(IsZero(input[1][i], FactFields[i].type)
                   /\ ~(Len(err) > 1 /\ err[1].s1 = "Inner"
                        /\ \E j \in 1..(i - 1) : err[2].s1 = FactFields[j].name))
             + Count(input[2].nil /\ ~FailedBefore(2))
             + Count(input[3].nil /\ ~FailedBefore(3))
    /\ (inputType \in DOMAIN TestStructs /\ Len(Fields(inputType)) = 1) =>
         /\ Len(calls) <= 1
         /\ ~IsZero(input[1], Fields(inputType)[1].type) => Len(calls) = 0

\* Value is set by the caller and both callables are registered: the one of
\* WithArgs is invoked, once, and the one of Value is not
C29_Witness ==
  /\ Succeeded /\ inputType = "Fact"
  /\ ~IsZero(input[2], "CustomVO") /\ IsZero(input[3], "CustomVO")
  /\ FactoryNames \subseteq DOMAIN factoryRegistry
  /\ calls = <<FactoryCall(FactoryNameV)>>

\* Value fails after its callable was invoked: the callable of WithArgs, which
\* is registered and would succeed, is not invoked
C29_WitnessAfterFailure ==
  /\ Returned /\ inputType = "Fact" /\ input = Zero("Fact")
  /\ FactoryNameV \in DOMAIN factoryRegistry
  /\ factoryRegistry[FactoryNameV] = "StrInt"
  /\ Len(err) > 0 /\ err[1].s1 = "Value"
  /\ Len(calls) = 1 /\ TimesCalled(FactoryNameV) = 0

\* the Inner of a Wrap and the generated element of its Facts each have
\* their Value made by one call, before WithArgs of the element fails
C29_WitnessNested ==
  /\ Returned /\ inputType = "Wrap" /\ input = Zero("Wrap")
  /\ Len(err) > 0 /\ err[1].s1 = "Facts"
  /\ TimesCalled(FactoryNameU) = 2 /\ TimesCalled(FactoryNameV) = 1

-----------------------------------------------------------------------------
\* Whether a factory: directive is found in t or in a type reached from it
RECURSIVE UsesFactory(_)
UsesFactory(t) ==
  LET ti == TypeInfo(t) IN
  CASE ti.kind = "struct" ->
         \E i \in 1..Len(ti.fields) :
           \/ HasPrefix(ti.fields[i].tag, TagFactory)
           \/ \E v \in DOMAIN ti.fields[i].vtags :
                HasPrefix(ti.fields[i].vtags[v], TagFactory)
           \/ UsesFactory(ti.fields[i].type)
    [] ti.kind \in {"ptr", "slice", "map"} -> UsesFactory(ti.elem)
    [] OTHER -> FALSE

\* the second call, on what the first returned, returns it again: no error,
\* the same value and the same pointed-to structs
ReturnsTheSame(again) ==
  /\ ~again.panic /\ Len(again.err) = 0
  /\ again.output = result
  /\ again.heap = heap

\* C30: on a struct type without factory directives Fill is idempotent: when
\* Fill(x) succeeds with y, Fill(y) succeeds and returns a value equal to y,
\* and likewise FillWithVariant(y, v) after FillWithVariant(x, v), for every
\* variant v.
C30_Idempotent ==
  (Succeeded /\ OfStruct /\ ~UsesFactory(inputType)) =>
    ReturnsTheSame(FillOutcome(inputType, In(result, heap), variantArg))

\* FillWithVariant(Deep{}, "a") filled two levels and made the pointed-to
\* structs; a second call on its result changes nothing
C30_Witness ==
  /\ Succeeded /\ inputType = "Deep" /\ variantArg = VariantA
  /\ input = Zero("Deep") /\ result # input /\ Len(heap) > 0
  /\ ReturnsTheSame(FillOutcome("Deep", In(result, heap), VariantA))

-----------------------------------------------------------------------------
(***************************************************************************)
(* Calls running at once.  Each goroutine runs one Fill/FillWithVariant    *)
(* call a struct field at a time; its call stack holds one frame for each  *)
(* fillStructWithVariant it is in.  A frame names the struct it fills: in  *)
(* the call's own copy resultValue (root 0) or in a heap cell (root the    *)
(* address), at the path of field indexes of the nested structs, and the   *)
(* field i its loop is at.  The heap is the memory the goroutines share.   *)
(* A setter runs in one step: it writes the field and cells it makes.      *)
(* MaxDepth stands for the limit of the call stack: a goroutine about to   *)
(* go deeper ends the process (fatal: stack overflow).                     *)
(***************************************************************************)

MaxDepth == 3

Goroutines == {1, 2}

\* structValue.Field(i), along the path of field indexes
RECURSIVE FieldAt(_, _)
FieldAt(v, path) ==
  IF path = <<>> THEN v ELSE FieldAt(v[Head(path)], Tail(path))

\* field.Set(x) on the field at the path
RECURSIVE SetFieldAt(_, _, _)
SetFieldAt(v, path, x) ==
  IF path = <<>> THEN x
  ELSE [v EXCEPT ![Head(path)] = SetFieldAt(v[Head(path)], Tail(path), x)]

\* Two calls start with the registrations done: each its input, with the
\* working copy made (resultValue.Set(inputValue)).  The input's fill-tagged
\* pointer is nil, or points to the goroutine's own cell, or (goroutine 1)
\* to the cell of goroutine 2.
ConcInit ==
  LET Started(t, variant, x) ==
        [t |-> t, variant |-> variant, input |-> x, work |-> x,
         stack |-> <<[t |-> t, root |-> 0, path |-> <<>>, i |-> 1]>>,
         calls |-> <<>>, err |-> NoError, status |-> "running",
         result |-> Zero(t)]
      Starts(id) ==
        { Started("Foo", v, <<0, Zero("Bar"), p, 0, 0>>) :
            v \in {<<>>, VariantA}, p \in {0, id, Len(callerHeap)} }
        \cup { Started(t, <<>>, Zero(t)) :
                 t \in {"Deep", "Fact", "Wrap", "NegativeStructSlice", "Node"} }
  IN
  /\ factoryRegistry \in
       { [n \in {} |-> NilFunc],
         [n \in FactoryNames |->
            IF n = FactoryNameU THEN "NewCustomVO" ELSE "StrInt"] }
  /\ op = NoOp
  /\ inputType = "int"
  /\ input = 0
  /\ variantArg = <<>>
  /\ callerHeap = << <<0, <<"c">>>>, Zero("Bar") >>
  /\ heap = callerHeap
  /\ work = 0
  /\ result = 0
  /\ err = NoError
  /\ calls = <<>>
  /\ panicked = FALSE
  /\ goroutine \in { g \in [Goroutines -> UNION { Starts(id) : id \in Goroutines }] :
                       \A id \in Goroutines : g[id] \in Starts(id) }

\* One turn of the loop of fillStructWithVariant for a field that is not
\* recursed into: skipped, or set by setFieldValue; an error returns through
\* every frame of the stack, wrapped by each.
Visit(id) ==
  LET g == goroutine[id]
      f == g.stack[Len(g.stack)]
      structValue == FieldAt(IF f.root = 0 THEN g.work ELSE heap[f.root], f.path)
      fieldType == Fields(f.t)[f.i]
      fieldValue == structValue[f.i]
      tagValue == getTagValueForVariant(fieldType, g.variant)
      nested == \/ Kind(fieldType.type) = "struct"
                \/ /\ Kind(fieldType.type) = "ptr"
                   /\ Kind(TypeInfo(fieldType.type).elem) = "struct"
      next == [g EXCEPT !.stack[Len(g.stack)].i = f.i + 1]
      wrapped(e) ==
        [k \in 1..(Len(g.stack) - 1) |->
           LET name == Fields(g.stack[k].t)[g.stack[k].i].name IN
           IF g.stack[k + 1].path = <<>>
           THEN ErrNestedStructPtr(name, <<>>)[1]
           ELSE ErrNestedStruct(name, <<>>)[1]]
        \o ErrSetField(fieldType.name, e)
      \* the goroutine after setFieldValue gave r
      after(r) ==
        [(IF r.panic THEN [g EXCEPT !.status = "panicked"]
          ELSE IF Len(r.err) > 0
          THEN [g EXCEPT !.status = "returned", !.err = wrapped(r.err),
                         !.result = Zero(g.t)]
          ELSE next)
         EXCEPT !.calls = r.calls,
                !.work = IF f.root = 0
                         THEN SetFieldAt(g.work, f.path \o <<f.i>>, r.val)
                         ELSE g.work]
      \* the shared memory after it
      written(r) ==
        IF f.root = 0 THEN r.heap
        ELSE [r.heap EXCEPT ![f.root] = SetFieldAt(@, f.path \o <<f.i>>, r.val)]
      set(r) ==
        /\ goroutine' = [goroutine EXCEPT ![id] = after(r)]
        /\ heap' = written(r)
  IN
  /\ \A o \in Goroutines : goroutine[o].status # "overflow"
  /\ g.status = "running"
  /\ f.i <= Len(Fields(f.t))
  /\ ~(fieldType.exported /\ tagValue = TagFill /\ nested)
  /\ IF \/ ~fieldType.exported
        \/ tagValue = TagFill
        \/ tagValue = <<>>
        \/ ~isZeroValue(fieldValue, fieldType.type)
     THEN /\ goroutine' = [goroutine EXCEPT ![id] = next]
          /\ UNCHANGED heap
     ELSE set(setFieldValue(fieldValue, fieldType.type, tagValue, heap, g.calls))
  /\ UNCHANGED <<factoryRegistry, op, inputType, input, variantArg, callerHeap,
                 work, result, err, calls, panicked>>

\* Enter with a depth guard: a nil pointer to a struct of a type the call is
\* already filling is left nil
EnterGuarded(id) ==
  LET g == goroutine[id]
      f == g.stack[Len(g.stack)]
      structValue == FieldAt(IF f.root = 0 THEN g.work ELSE heap[f.root], f.path)
      fieldType == Fields(f.t)[f.i]
      fieldValue == structValue[f.i]
      tagValue == getTagValueForVariant(fieldType, g.variant)
      elemType == TypeInfo(fieldType.type).elem
      addr == IF fieldValue = 0 THEN Len(heap) + 1 ELSE fieldValue
  IN
  /\ \A o \in Goroutines : goroutine[o].status # "overflow"
  /\ g.status = "running"
  /\ f.i <= Len(Fields(f.t))
  /\ fieldType.exported /\ tagValue = TagFill
  /\ Len(g.stack) < MaxDepth
  /\ \/ /\ Kind(fieldType.type) = "struct"
        /\ goroutine' =
             [goroutine EXCEPT ![id].stack =
                Append(@, [t |-> fieldType.type, root |-> f.root,
                           path |-> f.path \o <<f.i>>, i |-> 1])]
        /\ UNCHANGED heap
     \/ /\ Kind(fieldType.type) = "ptr" /\ Kind(elemType) = "struct"
        /\ fieldValue = 0
        /\ \E k \in 1..Len(g.stack) : g.stack[k].t = elemType
        /\ goroutine' = [goroutine EXCEPT ![id].stack[Len(g.stack)].i = f.i + 1]
        /\ UNCHANGED heap
     \/ /\ Kind(fieldType.type) = "ptr" /\ Kind(elemType) = "struct"
        /\ ~(fieldValue = 0 /\ \E k \in 1..Len(g.stack) : g.stack[k].t = elemType)
        /\ goroutine' =
             [goroutine EXCEPT
                ![id].stack = Append(@, [t |-> elemType, root |-> addr,
                                         path |-> <<>>, i |-> 1]),
                ![id].work = IF fieldValue = 0 /\ f.root = 0
                             THEN SetFieldAt(@, f.path \o <<f.i>>, addr) ELSE @]
        /\ heap' =
             IF fieldValue # 0 THEN heap
             ELSE IF f.root = 0 THEN Append(heap, Zero(elemType))
             ELSE Append([heap EXCEPT ![f.root] =
                            SetFieldAt(@, f.path \o <<f.i>>, addr)],
                         Zero(elemType))
  /\ UNCHANGED <<factoryRegistry, op, inputType, input, variantArg, callerHeap,
                 work, result, err, calls, panicked>>

\* handleNestedFillWithVariant entering fillStructWithVariant for a
\* fill-tagged struct, or pointer to a struct (a nil pointer is set to a new
\* struct first)
Enter(id) ==
  LET g == goroutine[id]
      f == g.stack[Len(g.stack)]
      structValue == FieldAt(IF f.root = 0 THEN g.work ELSE heap[f.root], f.path)
      fieldType == Fields(f.t)[f.i]
      fieldValue == structValue[f.i]
      tagValue == getTagValueForVariant(fieldType, g.variant)
      elemType == TypeInfo(fieldType.type).elem
      addr == IF fieldValue = 0 THEN Len(heap) + 1 ELSE fieldValue
  IN
  /\ \A o \in Goroutines : goroutine[o].status # "overflow"
  /\ g.status = "running"
  /\ f.i <= Len(Fields(f.t))
  /\ fieldType.exported /\ tagValue = TagFill
  /\ Len(g.stack) < MaxDepth
  /\ \/ /\ Kind(fieldType.type) = "struct"
        /\ goroutine' =
             [goroutine EXCEPT ![id].stack =
                Append(@, [t |-> fieldType.type, root |-> f.root,
                           path |-> f.path \o <<f.i>>, i |-> 1])]
        /\ UNCHANGED heap
     \/ /\ Kind(fieldType.type) = "ptr" /\ Kind(elemType) = "struct"
        /\ goroutine' =
             [goroutine EXCEPT
                ![id].stack = Append(@, [t |-> elemType, root |-> addr,
                                         path |-> <<>>, i |-> 1]),
                ![id].work = IF fieldValue = 0 /\ f.root = 0
                             THEN SetFieldAt(@, f.path \o <<f.i>>, addr) ELSE @]
        /\ heap' =
             IF fieldValue # 0 THEN heap
             ELSE IF f.root = 0 THEN Append(heap, Zero(elemType))
             ELSE Append([heap EXCEPT ![f.root] =
                            SetFieldAt(@, f.path \o <<f.i>>, addr)],
                         Zero(elemType))
  /\ UNCHANGED <<factoryRegistry, op, inputType, input, variantArg, callerHeap,
                 work, result, err, calls, panicked>>

\* The call for a fill-tagged struct or pointer that the stack has no room
\* for: the runtime ends the process, and no goroutine goes on.
Overflow(id) ==
  LET g == goroutine[id]
      f == g.stack[Len(g.stack)]
      fieldType == Fields(f.t)[f.i]
      tagValue == getTagValueForVariant(fieldType, g.variant)
  IN
  /\ \A o \in Goroutines : goroutine[o].status # "overflow"
  /\ g.status = "running"
  /\ f.i <= Len(Fields(f.t))
  /\ fieldType.exported /\ tagValue = TagFill
  /\ \/ Kind(fieldType.type) = "struct"
     \/ /\ Kind(fieldType.type) = "ptr"
        /\ Kind(TypeInfo(fieldType.type).elem) = "struct"
  /\ Len(g.stack) = MaxDepth
  /\ goroutine' = [goroutine EXCEPT ![id].status = "overflow"]
  /\ UNCHANGED <<factoryRegistry, op, inputType, input, variantArg, callerHeap,
                 heap, work, result, err, calls, panicked>>

\* fillStructWithVariant returning nil after its last field: the loop of the
\* caller goes on, or Fill returns resultValue
Leave(id) ==
  LET g == goroutine[id]
      f == g.stack[Len(g.stack)]
      depth == Len(g.stack)
  IN
  /\ \A o \in Goroutines : goroutine[o].status # "overflow"
  /\ g.status = "running"
  /\ f.i > Len(Fields(f.t))
  /\ goroutine' =
       [goroutine EXCEPT ![id] =
          IF depth = 1
          THEN [g EXCEPT !.status = "returned", !.result = g.work]
          ELSE [g EXCEPT !.stack = [SubSeq(g.stack, 1, depth - 1)
                                      EXCEPT ![depth - 1].i = @ + 1]]]
  /\ UNCHANGED <<factoryRegistry, op, inputType, input, variantArg, callerHeap,
                 heap, work, result, err, calls, panicked>>

ConcNext ==
  \E id \in Goroutines : Visit(id) \/ Enter(id) \/ Overflow(id) \/ Leave(id)

\* The scheduler runs every goroutine that can run: weak fairness of the
\* steps of each goroutine.  For the steps that evaluate a setter or enter a
\* struct the condition is written out: a step of goroutine id is enabled
\* when it is running and the process lives (setFieldValue returns or
\* panics), and the steps of id are the steps that change goroutine[id].
ConcSpec ==
  /\ ConcInit
  /\ [][ConcNext]_vars
  /\ \A id \in Goroutines :
       /\ WF_vars(Overflow(id) \/ Leave(id))
       /\ \/ []<>(\/ goroutine[id].status # "running"
                  \/ \E o \in Goroutines : goroutine[o].status = "overflow")
          \/ []<><<goroutine'[id] # goroutine[id]>>_vars

-----------------------------------------------------------------------------
\* the cells a value of type t holds pointers to, in heap h
RECURSIVE Pointees(_, _, _)
Pointees(t, v, h) ==
  LET ti == TypeInfo(t) IN
  CASE ti.kind = "struct" ->
         UNION { Pointees(ti.fields[i].type, v[i], h) : i \in 1..Len(ti.fields) }
    [] ti.kind = "ptr" ->
         IF v = 0 THEN {} ELSE {v} \cup Pointees(ti.elem, h[v], h)
    [] OTHER -> {}

\* the inputs of the calls share no cell
Independent ==
  \A a \in Goroutines : \A b \in Goroutines \ {a} :
    Pointees(goroutine[a].t, goroutine[a].input, callerHeap)
      \cap Pointees(goroutine[b].t, goroutine[b].input, callerHeap) = {}

\* what the call of goroutine id returns when it runs alone
Alone(id) ==
  FillOutcome(goroutine[id].t, In(goroutine[id].input, callerHeap),
              goroutine[id].variant)

\* the call of goroutine id ended as a is: the same value, error and factory
\* calls, and the same structs behind the pointers of its input
EndedAs(id, a) ==
  LET g == goroutine[id] IN
  IF g.status = "panicked" THEN a.panic
  ELSE /\ ~a.panic
       /\ g.err = a.err
       /\ g.calls = a.calls
       /\ DeepEq(g.t, g.result, heap, a.output, a.heap)
       /\ DeepEq(g.t, g.input, heap, g.input, a.heap)

Ended(id) == goroutine[id].status \in {"returned", "panicked"}

\* the structs the callers' pointers point to are as they were at the calls
CallersCellsKept ==
  \A a \in 1..Len(callerHeap) : heap[a] = callerHeap[a]

\* C21: calls running at once on independent inputs do not interfere: each
\* writes only to its own private copy, so the structs the callers passed
\* pointers to stay as they were, and under every interleaving a call that
\* ended returned what it returns when run alone.
C21_NoInterference ==
  Independent =>
    /\ CallersCellsKept
    /\ \A id \in Goroutines : Ended(id) => EndedAs(id, Alone(id))

\* the part of C21 the code keeps: on inputs that share no cell, a call that
\* ended returned what it returns when run alone, whatever the interleaving
C21_IndependentAsAlone ==
  Independent => \A id \in Goroutines : Ended(id) => EndedAs(id, Alone(id))

\* and no step of a fill adds, replaces or removes an entry of the registry
C21_RegistryOnlyRead == [][factoryRegistry' = factoryRegistry]_vars

\* both calls ended, on inputs each with its own struct behind the pointer
C21_WitnessIndependent ==
  /\ Independent
  /\ \A id \in Goroutines :
       /\ goroutine[id].t = "Foo" /\ goroutine[id].input[3] = id
       /\ goroutine[id].status = "returned"

\* two calls given the same pointer do interfere: the second ran with
\* variant a and returned the String the first wrote with the default tag
C21_SharedInterferes ==
  /\ ~Independent
  /\ goroutine[2].status = "returned" /\ goroutine[2].variant = VariantA
  /\ ~EndedAs(2, Alone(2))

-----------------------------------------------------------------------------
\* the struct types a fill of struct type t goes into: those of its
\* fill-tagged structs and pointers and of the elements it generates
FillTargets(t) ==
  LET fs == Fields(t)
      Tags(f) == {f.tag} \cup { f.vtags[v] : v \in DOMAIN f.vtags }
      Target(f) ==
        LET ti == TypeInfo(f.type) IN
        IF ti.kind = "struct" /\ TagFill \in Tags(f) THEN {f.type}
        ELSE IF ti.kind = "ptr" /\ Kind(ti.elem) = "struct" /\ TagFill \in Tags(f)
        THEN {ti.elem}
        ELSE IF ti.kind \in {"slice", "map"} /\ Kind(ti.elem) = "struct"
                /\ Tags(f) # {<<>>}
        THEN {ti.elem}
        ELSE {}
  IN UNION { Target(fs[i]) : i \in 1..Len(fs) }

RECURSIVE FillReach(_)
FillReach(ts) ==
  LET more == ts \cup UNION { FillTargets(t) : t \in ts } IN
  IF more = ts THEN ts ELSE FillReach(more)

\* t is reached from itself
SelfReferential(t) == t \in FillReach(FillTargets(t))

StackOverflow ==
  \E o \in Goroutines :
    /\ SelfReferential(goroutine[o].t) /\ goroutine[o].status = "overflow"

C28_WitnessEnded ==
  /\ goroutine[1].t = "NegativeStructSlice" /\ goroutine[1].status = "panicked"
  /\ goroutine[2].t = "Wrap" /\ goroutine[2].status = "returned"
  /\ Len(goroutine[2].err) > 0 /\ goroutine[2].err[1].fmt = "ErrNestedStruct"

====
